---------------------------- MODULE Spec2Model ----------------------------
(***************************************************************************)
(* Model of the transcript chaincode (chaincodeTranscript/transcript.go):  *)
(* content-addressed academic records in a key-value world state, a meta   *)
(* index keyed by composite(owner, student id, digest), and the insertion  *)
(* pipeline that hashes a record, checks the meta index and writes both.   *)
(*                                                                         *)
(* Go strings are TLA+ strings.  Go structs are records carrying the Go    *)
(* field names; JSON documents are records carrying the json tag names.    *)
(* A float32 Point is modelled in tenths (189 stands for 18.9).            *)
(***************************************************************************)
EXTENDS Integers, Sequences, FiniteSets, TLC

VARIABLES
    worldState,   \* committed key-value store: key |-> JSON document
    pending,      \* invocations simulated by the host but not yet committed
    invoked,      \* number of invocations started so far
    succeeded,    \* inserts that returned (true, nil) and were committed
    response,     \* what the last query returned to its caller
    hKind,        \* hashing harness: the struct type under test
    hA,           \* hashing harness: first struct value
    hB,           \* hashing harness: second struct value
    hOut          \* hashing harness: results of hashing hA and hB

vars == <<worldState, pending, invoked, succeeded, response, hKind, hA, hB, hOut>>
storeVars == <<worldState, pending, invoked, succeeded, response>>
hashVars == <<hKind, hA, hB, hOut>>

\* Bound on the number of invocations (InitLedger and inserts) of one run.
MaxInvocations == 3

\* Bound on the number of transactions a waiting caller submits in one run.
MaxSubmissions == 2
\* Bound on the number of struct field assignments in the hashing harness.
MaxAssign == 3

(***************************************************************************)
(* Data structures                                                         *)
(***************************************************************************)
StudentInfoFields ==
    << "Faculty", "Department", "StudentID", "StudentSurname", "StudentName",
       "NationalID", "RegistrationDate", "RegistrationType", "ProgramType",
       "Class", "StudentSemester", "HashValue" >>

TakenCourseFields ==
    << "StudentID", "CourseCode", "Grade", "Point", "TakenSemester", "HashValue" >>

CourseInfoFields ==
    << "CourseCode", "CourseName", "CourseType", "ECTS", "Credit", "HashValue" >>

\* The Go type of a struct field.
FieldType(kind, field) ==
    IF field \in {"StudentID", "Class", "StudentSemester", "TakenSemester", "ECTS", "Credit"}
    THEN "int"
    ELSE IF field = "Point" THEN "float32" ELSE "string"

\* reflect: the dynamic type of the struct handed over as interface{}.
TypeOf(s) ==
    IF "Faculty" \in DOMAIN s THEN "StudentInfo"
    ELSE IF "Grade" \in DOMAIN s THEN "TakenCourse"
    ELSE "CourseInfo"

\* reflect: the fields of a struct type in declaration order.
Fields(kind) ==
    CASE kind = "StudentInfo" -> StudentInfoFields
      [] kind = "TakenCourse" -> TakenCourseFields
      [] kind = "CourseInfo" -> CourseInfoFields

\* The zero value of a Go type.
ZeroOf(type) == IF type = "string" THEN "" ELSE 0

\* `var student StudentInfo`: the zero-valued struct of a kind.
ZeroStruct(kind) ==
    [f \in {Fields(kind)[i] : i \in 1..Len(Fields(kind))} |-> ZeroOf(FieldType(kind, f))]

(***************************************************************************)
(* Canonical hasher                                                        *)
(***************************************************************************)
Digit(d) == SubSeq("0123456789", d + 1, d + 1)

\* strconv.Itoa, and %v of an int.
RECURSIVE Itoa(_)
Itoa(n) ==
    IF n < 0 THEN "-" \o Itoa(-n)
    ELSE IF n < 10 THEN Digit(n)
    ELSE Itoa(n \div 10) \o Digit(n % 10)

\* A formatting that loses the fraction (as %d of the truncated value would).
FormatFloat32Truncated(p) == Itoa(p \div 10)

\* %v of a float32 held in tenths: shortest decimal form ("20", "18.9").
FormatFloat32(p) ==
    IF p < 0 THEN "-" \o Itoa((-p) \div 10) \o (IF (-p) % 10 = 0 THEN "" ELSE "." \o Digit((-p) % 10))
    ELSE Itoa(p \div 10) \o (IF p % 10 = 0 THEN "" ELSE "." \o Digit(p % 10))

\* fmt.Sprintf("%v", value) for the field types in use.
SprintfV(type, value) ==
    CASE type = "string" -> value
      [] type = "int" -> Itoa(value)
      [] type = "float32" -> FormatFloat32(value)

\* strings.Join(elems, sep)
RECURSIVE Join(_, _)
Join(elems, sep) ==
    IF Len(elems) = 0 THEN ""
    ELSE IF Len(elems) = 1 THEN elems[1]
    ELSE elems[1] \o sep \o Join(Tail(elems), sep)

\* The name StructToString compares each field name with: only a field of
\* this name is left out of the canonical string.
SkippedField == "HashCode"

\* The slice of per-field strings StructToString joins.
MySlice(s) ==
    LET fs == Fields(TypeOf(s))
    IN [i \in 1..Len(fs) |->
          IF fs[i] # SkippedField
          THEN SprintfV(FieldType(TypeOf(s), fs[i]), s[fs[i]])
          ELSE ""]

\* result[:len(result)-1]
DropLast(str) == SubSeq(str, 1, Len(str) - 1)

StructToString(s) == DropLast(Join(MySlice(s), ","))

\* md5 + hex, idealised as collision-free: the digest determines the input.
StringToMD5(value) == "md5(" \o value \o ")"

StructToMD5(s) == StringToMD5(StructToString(s))


(***************************************************************************)
(* Record store facade and meta index (the ledger stub's calls)            *)
(***************************************************************************)
\* The json tag of a Go struct field.
JsonTag(field) ==
    CASE field = "Faculty" -> "faculty"
      [] field = "Department" -> "department"
      [] field = "StudentID" -> "student_id"
      [] field = "StudentSurname" -> "student_surname"
      [] field = "StudentName" -> "student_name"
      [] field = "NationalID" -> "national_id"
      [] field = "RegistrationDate" -> "registration_date"
      [] field = "RegistrationType" -> "registration_type"
      [] field = "ProgramType" -> "program_type"
      [] field = "Class" -> "class"
      [] field = "StudentSemester" -> "student_semester"
      [] field = "HashValue" -> "hash_value"
      [] field = "CourseCode" -> "course_code"
      [] field = "Grade" -> "grade"
      [] field = "Point" -> "point"
      [] field = "TakenSemester" -> "taken_semester"
      [] field = "CourseName" -> "course_name"
      [] field = "CourseType" -> "course_type"
      [] field = "ECTS" -> "ects"
      [] field = "Credit" -> "credit"
      [] field = "Owner" -> "owner"
      [] field = "Relation" -> "relation"

\* json.Marshal of a struct: the document keyed by the json tags.
Marshal(s) ==
    [t \in {JsonTag(f) : f \in DOMAIN s} |->
        s[CHOOSE f \in DOMAIN s : JsonTag(f) = t]]

\* Stands for U+0000, which a composite key attribute cannot contain.
NUL == "|"

RECURSIVE JoinAttributes(_)
JoinAttributes(attributes) ==
    IF Len(attributes) = 0 THEN ""
    ELSE attributes[1] \o NUL \o JoinAttributes(Tail(attributes))

\* stub.CreateCompositeKey(objectType, attributes)
CreateCompositeKey(objectType, attributes) ==
    NUL \o objectType \o NUL \o JoinAttributes(attributes)

\* stub.PutState(key, value) applied to a world state.
PutState(ws, key, value) ==
    [k \in (DOMAIN ws) \cup {key} |-> IF k = key THEN value ELSE ws[k]]

\* A document matches a selector when it has every selector field with an
\* equal value.
Matches(doc, selector) ==
    /\ DOMAIN selector \subseteq DOMAIN doc
    /\ \A f \in DOMAIN selector : doc[f] = selector[f]

\* stub.GetQueryResult(selector): the keys of the matching documents.
GetQueryResult(ws, selector) ==
    {k \in DOMAIN ws : Matches(ws[k], selector)}

\* Error values, named by the message the code formats.
Nil == "nil"
ErrRead == "failed to read from worldstate db"
ErrExists == "the record you sent exists"
ErrPutData == "failed to put student info to world state."
ErrPutMeta == "failed to put meta student info to world state."
ErrPutCourse == "failed to put course record to world state."
ErrPutCourseInfo == "failed to put course info record to world state."
ErrPutMetaCourseInfo == "failed to put meta course info to world state."

\* A selector that leaves the student id out.
IsRecordExistsAnyStudent(ws, Owner, StudentID, HashCode, queryFails) ==
    IF queryFails THEN [exists |-> TRUE, err |-> ErrRead, unclosed |-> 0]
    ELSE IF GetQueryResult(ws, [owner |-> Owner, hash_value |-> HashCode]) # {}
         THEN [exists |-> TRUE, err |-> Nil, unclosed |-> 1]
         ELSE [exists |-> FALSE, err |-> Nil, unclosed |-> 0]

\* The HasNext test the wrong way round.
IsRecordExistsInverted(ws, Owner, StudentID, HashCode, queryFails) ==
    IF queryFails THEN [exists |-> TRUE, err |-> ErrRead, unclosed |-> 0]
    ELSE IF GetQueryResult(ws, [owner |-> Owner, student_id |-> StudentID,
                                hash_value |-> HashCode]) = {}
         THEN [exists |-> TRUE, err |-> Nil, unclosed |-> 1]
         ELSE [exists |-> FALSE, err |-> Nil, unclosed |-> 0]

\* IsRecordExists(Owner, StudentID, HashCode); queryFails is the backend
\* failing the query.  Returns [exists, err], and unclosed, the number of
\* iterators it left open: the return on HasNext precedes the deferred Close.
IsRecordExists(ws, Owner, StudentID, HashCode, queryFails) ==
    IF queryFails THEN [exists |-> TRUE, err |-> ErrRead, unclosed |-> 0]
    ELSE IF GetQueryResult(ws, [owner |-> Owner, student_id |-> StudentID,
                                hash_value |-> HashCode]) # {}
         THEN [exists |-> TRUE, err |-> Nil, unclosed |-> 1]
         ELSE [exists |-> FALSE, err |-> Nil, unclosed |-> 0]

(***************************************************************************)
(* Insertion pipeline.  A handler is evaluated against the committed world *)
(* state ws and returns [ok, err, writes]: its return values and the       *)
(* PutState calls it issued, in order.  failAt names the backend call that *)
(* fails during the invocation (0: none; for an insert 1 is the selector   *)
(* query, 2 the data PutState, 3 the meta PutState).                       *)
(***************************************************************************)
Write(key, value) == [key |-> key, value |-> value]

MetaInfo(owner, studentID, relation, hashValue) ==
    [Owner |-> owner, StudentID |-> studentID, Relation |-> relation,
     HashValue |-> hashValue]

MetaKey(meta) ==
    CreateCompositeKey("heiID", <<meta.Owner, meta.StudentID, meta.HashValue>>)

\* The two writes in the opposite order.
InsertRecordMetaFirst(ws, owner, studentId, record, relation, failAt) ==
    LET generatedHashValue == StructToMD5(record)
        stored == [record EXCEPT !.HashValue = generatedHashValue]
        check == IsRecordExists(ws, owner, Itoa(studentId), generatedHashValue, failAt = 1)
        meta == MetaInfo(owner, Itoa(studentId), relation, generatedHashValue)
    IN IF check.err # Nil THEN [ok |-> FALSE, err |-> check.err, writes |-> << >>]
       ELSE IF check.exists THEN [ok |-> FALSE, err |-> ErrExists, writes |-> << >>]
       ELSE IF failAt = 2 THEN [ok |-> FALSE, err |-> ErrPutMeta, writes |-> << >>]
       ELSE IF failAt = 3
            THEN [ok |-> FALSE, err |-> ErrPutData,
                  writes |-> << Write(MetaKey(meta), Marshal(meta)) >>]
       ELSE [ok |-> TRUE, err |-> Nil,
             writes |-> << Write(MetaKey(meta), Marshal(meta)),
                           Write(stored.HashValue, Marshal(stored)) >>]

\* The data record written before the existence check.
InsertRecordWriteBeforeCheck(ws, owner, studentId, record, relation, failAt) ==
    LET generatedHashValue == StructToMD5(record)
        stored == [record EXCEPT !.HashValue = generatedHashValue]
        check == IsRecordExists(ws, owner, Itoa(studentId), generatedHashValue, failAt = 1)
        meta == MetaInfo(owner, Itoa(studentId), relation, generatedHashValue)
        data == Write(stored.HashValue, Marshal(stored))
    IN IF check.err # Nil THEN [ok |-> FALSE, err |-> check.err, writes |-> << data >>]
       ELSE IF check.exists THEN [ok |-> FALSE, err |-> ErrExists, writes |-> << data >>]
       ELSE IF failAt = 2 THEN [ok |-> FALSE, err |-> ErrPutData, writes |-> << >>]
       ELSE IF failAt = 3 THEN [ok |-> FALSE, err |-> ErrPutMeta, writes |-> << data >>]
       ELSE [ok |-> TRUE, err |-> Nil,
             writes |-> << data, Write(MetaKey(meta), Marshal(meta)) >>]

\* The error of the meta PutState left unchecked.
InsertRecordIgnoreMetaError(ws, owner, studentId, record, relation, failAt) ==
    LET generatedHashValue == StructToMD5(record)
        stored == [record EXCEPT !.HashValue = generatedHashValue]
        check == IsRecordExists(ws, owner, Itoa(studentId), generatedHashValue, failAt = 1)
        meta == MetaInfo(owner, Itoa(studentId), relation, generatedHashValue)
    IN IF check.err # Nil THEN [ok |-> FALSE, err |-> check.err, writes |-> << >>]
       ELSE IF check.exists THEN [ok |-> FALSE, err |-> ErrExists, writes |-> << >>]
       ELSE IF failAt = 2 THEN [ok |-> FALSE, err |-> ErrPutData, writes |-> << >>]
       ELSE IF failAt = 3
            THEN [ok |-> TRUE, err |-> Nil,
                  writes |-> << Write(stored.HashValue, Marshal(stored)) >>]
       ELSE [ok |-> TRUE, err |-> Nil,
             writes |-> << Write(stored.HashValue, Marshal(stored)),
                           Write(MetaKey(meta), Marshal(meta)) >>]

\* A composite key that also carries a running number taken from the store.
InsertRecordSequencedKey(ws, owner, studentId, record, relation, failAt) ==
    LET generatedHashValue == StructToMD5(record)
        stored == [record EXCEPT !.HashValue = generatedHashValue]
        check == IsRecordExists(ws, owner, Itoa(studentId), generatedHashValue, failAt = 1)
        meta == MetaInfo(owner, Itoa(studentId), relation, generatedHashValue)
        compositeKey == CreateCompositeKey("heiID",
                            <<meta.Owner, meta.StudentID, meta.HashValue,
                              Itoa(Cardinality(DOMAIN ws))>>)
    IN IF check.err # Nil THEN [ok |-> FALSE, err |-> check.err, writes |-> << >>]
       ELSE IF check.exists THEN [ok |-> FALSE, err |-> ErrExists, writes |-> << >>]
       ELSE IF failAt = 2 THEN [ok |-> FALSE, err |-> ErrPutData, writes |-> << >>]
       ELSE IF failAt = 3
            THEN [ok |-> FALSE, err |-> ErrPutMeta,
                  writes |-> << Write(stored.HashValue, Marshal(stored)) >>]
       ELSE [ok |-> TRUE, err |-> Nil,
             writes |-> << Write(stored.HashValue, Marshal(stored)),
                           Write(compositeKey, Marshal(meta)) >>]

\* The body the three InsertNewRecord* handlers share once the struct is
\* populated: hash, existence check, data write, meta write.
InsertRecord(ws, owner, studentId, record, relation, failAt) ==
    LET generatedHashValue == StructToMD5(record)
        stored == [record EXCEPT !.HashValue = generatedHashValue]
        check == IsRecordExists(ws, owner, Itoa(studentId), generatedHashValue, failAt = 1)
        meta == MetaInfo(owner, Itoa(studentId), relation, generatedHashValue)
    IN IF check.err # Nil THEN [ok |-> FALSE, err |-> check.err, writes |-> << >>]
       ELSE IF check.exists THEN [ok |-> FALSE, err |-> ErrExists, writes |-> << >>]
       ELSE IF failAt = 2 THEN [ok |-> FALSE, err |-> ErrPutData, writes |-> << >>]
       ELSE IF failAt = 3
            THEN [ok |-> FALSE, err |-> ErrPutMeta,
                  writes |-> << Write(stored.HashValue, Marshal(stored)) >>]
       ELSE [ok |-> TRUE, err |-> Nil,
             writes |-> << Write(stored.HashValue, Marshal(stored)),
                           Write(MetaKey(meta), Marshal(meta)) >>]

\* The struct each handler populates from its arguments (HashValue still "").
StudentInfoOf(a) ==
    [Faculty |-> a.faculty, Department |-> a.department, StudentID |-> a.studentId,
     StudentSurname |-> a.surname, StudentName |-> a.name, NationalID |-> a.nationalid,
     RegistrationDate |-> a.registrationdate, RegistrationType |-> a.registrationtype,
     ProgramType |-> a.programtype, Class |-> a.class, StudentSemester |-> a.semester,
     HashValue |-> ""]

TakenCourseOf(a) ==
    [StudentID |-> a.studentId, CourseCode |-> a.courseCode, Grade |-> a.grade,
     Point |-> a.point, TakenSemester |-> a.takenSemester, HashValue |-> ""]

CourseInfoOf(a) ==
    [CourseCode |-> a.courseCode, CourseName |-> a.courseName,
     CourseType |-> a.courseType, ECTS |-> a.ects, Credit |-> a.credit,
     HashValue |-> ""]

InsertNewRecordStudentInfo(ws, a, failAt) ==
    InsertRecord(ws, a.owner, a.studentId, StudentInfoOf(a), "StudentInfo", failAt)

InsertNewRecordTakenCourse(ws, a, failAt) ==
    InsertRecord(ws, a.owner, a.studentId, TakenCourseOf(a), "TakenCourse", failAt)

InsertNewRecordCourseInfo(ws, a, failAt) ==
    InsertRecord(ws, a.owner, a.studentnumber, CourseInfoOf(a), "CourseInfo", failAt)

(***************************************************************************)
(* Bootstrap seeder                                                        *)
(***************************************************************************)
Students ==
    << [Faculty |-> "Faculty of Engineering and Architecture",
        Department |-> "Department of Computer Engineering",
        StudentID |-> 190908809, StudentSurname |-> "Selvi", StudentName |-> "Osman",
        NationalID |-> "44262495576", RegistrationDate |-> "02.09.2022",
        RegistrationType |-> "Major / OSYM", ProgramType |-> "Undergraduate",
        Class |-> 1, StudentSemester |-> 1, HashValue |-> ""] >>

MetaStudents ==
    [i \in 1..Len(Students) |->
        MetaInfo("Fenerbahce University", "190908809", "StudentInfo", "NULL")]

TakenCourses ==
    << [StudentID |-> 190908809, CourseCode |-> "COMP1001", Grade |-> "AA", Point |-> 200,
        TakenSemester |-> 1, HashValue |-> ""],
       [StudentID |-> 190908809, CourseCode |-> "COMP1003", Grade |-> "BA", Point |-> 210,
        TakenSemester |-> 1, HashValue |-> ""],
       [StudentID |-> 190908809, CourseCode |-> "ENG103", Grade |-> "BB", Point |-> 60,
        TakenSemester |-> 1, HashValue |-> ""],
       [StudentID |-> 190908809, CourseCode |-> "MATH1001", Grade |-> "CB", Point |-> 189,
        TakenSemester |-> 1, HashValue |-> ""],
       [StudentID |-> 190908809, CourseCode |-> "PHYS1001", Grade |-> "CC", Point |-> 80,
        TakenSemester |-> 1, HashValue |-> ""],
       [StudentID |-> 190908809, CourseCode |-> "PHYS1011", Grade |-> "CC", Point |-> 40,
        TakenSemester |-> 1, HashValue |-> ""],
       [StudentID |-> 190908809, CourseCode |-> "TURK103", Grade |-> "BB", Point |-> 60,
        TakenSemester |-> 1, HashValue |-> ""],
       [StudentID |-> 190908809, CourseCode |-> "UNI103", Grade |-> "AA", Point |-> 80,
        TakenSemester |-> 1, HashValue |-> ""] >>

MetaTakenCourses ==
    [i \in 1..Len(TakenCourses) |->
        MetaInfo("Fenerbahce University", "190908809", "TakenCourse", "NULL")]

CourseInfoS ==
    << [CourseCode |-> "COMP1001", CourseName |-> "Fundamentals of Computer Engineering",
        CourseType |-> "C", ECTS |-> 5, Credit |-> 3, HashValue |-> ""],
       [CourseCode |-> "COMP1003", CourseName |-> "Algorithms and Programming I",
        CourseType |-> "C", ECTS |-> 6, Credit |-> 3, HashValue |-> ""],
       [CourseCode |-> "ENG103", CourseName |-> "Advanced English I",
        CourseType |-> "C", ECTS |-> 2, Credit |-> 2, HashValue |-> ""],
       [CourseCode |-> "MATH1001", CourseName |-> "Calculus I",
        CourseType |-> "C", ECTS |-> 7, Credit |-> 4, HashValue |-> ""],
       [CourseCode |-> "PHYS1001", CourseName |-> "Physics I",
        CourseType |-> "C", ECTS |-> 4, Credit |-> 3, HashValue |-> ""],
       [CourseCode |-> "PHYS1011", CourseName |-> "Physics I Laboratory",
        CourseType |-> "C", ECTS |-> 2, Credit |-> 1, HashValue |-> ""],
       [CourseCode |-> "TURK103", CourseName |-> "Turkish Language I",
        CourseType |-> "C", ECTS |-> 2, Credit |-> 2, HashValue |-> ""],
       [CourseCode |-> "UNI103", CourseName |-> "University Life and Culture",
        CourseType |-> "C", ECTS |-> 2, Credit |-> 2, HashValue |-> ""] >>

MetaCourseInfoS ==
    [i \in 1..Len(CourseInfoS) |->
        MetaInfo("Fenerbahce University", "190908809", "CourseInfo", "NULL")]

SeedPutsUnhashedMeta(records, metas, errData, errMeta) ==
    LET H(i) == StructToMD5(records[i])
        data(i) == [records[i] EXCEPT !.HashValue = H(i)]
    IN [j \in 1..(2 * Len(records)) |->
          LET i == (j + 1) \div 2
          IN IF j % 2 = 1
             THEN [key |-> data(i).HashValue, value |-> Marshal(data(i)), err |-> errData]
             ELSE [key |-> MetaKey(metas[i]), value |-> Marshal(metas[i]), err |-> errMeta]]

\* One pass of a seeding loop body: the two PutState calls for record i,
\* each with the error the loop reports when that call fails.
SeedPuts(records, metas, errData, errMeta) ==
    LET H(i) == StructToMD5(records[i])
        data(i) == [records[i] EXCEPT !.HashValue = H(i)]
        meta(i) == [metas[i] EXCEPT !.HashValue = H(i)]
    IN [j \in 1..(2 * Len(records)) |->
          LET i == (j + 1) \div 2
          IN IF j % 2 = 1
             THEN [key |-> data(i).HashValue, value |-> Marshal(data(i)), err |-> errData]
             ELSE [key |-> MetaKey(meta(i)), value |-> Marshal(meta(i)), err |-> errMeta]]

\* Every PutState InitLedger issues, in program order.
InitLedgerPuts ==
    SeedPuts(Students, MetaStudents, ErrPutData, ErrPutMeta)
    \o SeedPuts(TakenCourses, MetaTakenCourses, ErrPutCourse, ErrPutMeta)
    \o SeedPuts(CourseInfoS, MetaCourseInfoS, ErrPutCourseInfo, ErrPutMetaCourseInfo)

InitLedgerThroughPipeline(ws, failAt) ==
    LET puts == InitLedgerPuts
        new == {j \in 1..Len(puts) :
                   puts[IF j % 2 = 1 THEN j + 1 ELSE j].key \notin DOMAIN ws}
        failed == failAt \in new
    IN [ok |-> ~failed,
        err |-> IF failed THEN puts[failAt].err ELSE Nil,
        writes |-> SelectSeq([j \in 1..Len(puts) |->
                                 [key |-> puts[j].key, value |-> puts[j].value,
                                  at |-> j]],
                             LAMBDA w : w.at \in new /\ (failed => w.at < failAt))]

\* InitLedger: failAt is the index of the PutState that fails (0: none).
InitLedger(ws, failAt) ==
    LET puts == InitLedgerPuts
        issued == IF failAt \in 1..Len(puts) THEN failAt - 1 ELSE Len(puts)
    IN [ok |-> ~(failAt \in 1..Len(puts)),
        err |-> IF failAt \in 1..Len(puts) THEN puts[failAt].err ELSE Nil,
        writes |-> [j \in 1..issued |-> Write(puts[j].key, puts[j].value)]]

(***************************************************************************)
(* Query layer                                                             *)
(***************************************************************************)
\* The state database returns the rows of a query in key order, and a
\* composite key orders as the list of its attributes does, since U+0000
\* sorts below every other byte.  Collation lists the bytes that occur in
\* attributes, lowest first.
Collation ==
    " ()+,-./0123456789:ABCDEFGHIJKLMNOPQRSTUVWXYZ_abcdefghijklmnopqrstuvwxyz"

Rank(ch) == CHOOSE i \in 1..Len(Collation) : SubSeq(Collation, i, i) = ch

\* The first position at which two strings differ, or one past the shorter.
FirstDifference(a, b) ==
    LET n == IF Len(a) < Len(b) THEN Len(a) ELSE Len(b)
    IN  CHOOSE i \in 1..(n + 1) :
            /\ i = n + 1 \/ SubSeq(a, i, i) # SubSeq(b, i, i)
            /\ SubSeq(a, 1, i - 1) = SubSeq(b, 1, i - 1)

StringLess(a, b) ==
    \E i \in {FirstDifference(a, b)} :
        IF i > Len(a) THEN i <= Len(b)
        ELSE IF i > Len(b) THEN FALSE
        ELSE Rank(SubSeq(a, i, i)) < Rank(SubSeq(b, i, i))

\* The order of the composite keys of two meta entries.
KeyLess(a, b) ==
    IF a.owner # b.owner THEN StringLess(a.owner, b.owner)
    ELSE IF a.student_id # b.student_id THEN StringLess(a.student_id, b.student_id)
    ELSE StringLess(a.hash_value, b.hash_value)

\* The one element of a singleton set.
Only(S) == CHOOSE x \in S : TRUE

\* The keys of a set of meta entries, lowest first.
SortKeys(ws, keys) ==
    Only({ [i \in 1..Cardinality(keys) |-> Only({k \in keys : below[k] = i - 1})] :
           below \in {[k \in keys |->
                         Cardinality({o \in keys : KeyLess(ws[o], ws[k])})]} })

Reverse(s) == [i \in 1..Len(s) |-> s[Len(s) + 1 - i]]

\* The rows an iterator over GetQueryResult(selector) yields, in order.  The
\* order of real digests is not the order of the modelled ones, so the
\* direction of the key order is an input of every query.
QueryRows(ws, selector, descending) ==
    Only({ IF descending THEN Reverse(ascending) ELSE ascending :
           ascending \in {Only({ SortKeys(ws, keys) :
                                 keys \in {GetQueryResult(ws, selector)} })} })

\* The error a failing backend call hands to the chaincode.
ErrBackend == "backend unavailable"

\* fmt.Errorf(format + "%v", err)
Errorf(format, err) == format \o err

FmtRead == "failed to read from worldstate db : "
ErrNoRecord == "no record were found relevant to the given arguments on worldstate db"
FmtIterate == "failed to iterate over the returned records : "
FmtNoHash == "there is not a record with the given hash value: "
FmtFetch == "error during fetch taken course record by hash value: "
FmtBare == ""
FmtTranscript == "failed to construct the transcript from the world state db: "

\* The value a handler returns next to a non-nil error.
NilValue == [nil |-> TRUE]

\* What a handler or one of its helpers did: the error and value it
\* returned, the backend calls it issued in order, and the number of
\* iterators it left open.
Result(err, value, calls, unclosed) ==
    [err |-> err, value |-> value, calls |-> calls, unclosed |-> unclosed]

\* The env of an invocation: failAt is the position, among the backend calls
\* of the invocation, of the one that fails (0: none); descending is the
\* direction of the key order.
Env(failAt, descending) == [failAt |-> failAt, descending |-> descending]

Calls(name, n) == [i \in 1..n |-> name]

\* The body of Get_Student_*_HashValues and Get_HEI_MetaInfos_* once
\* GetQueryResult has returned rows; failedNext is the position of the
\* iterator step that fails.
Iterate(ws, rows, failedNext) ==
    IF Len(rows) = 0
    THEN Result(ErrNoRecord, NilValue, Calls("GetQueryResult", 1), 1)
    ELSE IF failedNext \in 1..Len(rows)
    THEN Result(Errorf(FmtIterate, ErrBackend), NilValue,
                Calls("GetQueryResult", 1) \o Calls("Next", failedNext), 0)
    ELSE Result(Nil, [i \in 1..Len(rows) |-> ws[rows[i]]],
                Calls("GetQueryResult", 1) \o Calls("Next", Len(rows)), 0)

\* Get_HEI_MetaInfos_*: the meta entries a selector matches.  done is the
\* number of backend calls the invocation issued before.
MetaInfos(ws, selector, done, env) ==
    IF env.failAt = done + 1
    THEN Result(Errorf(FmtRead, ErrBackend), NilValue, Calls("GetQueryResult", 1), 0)
    ELSE Only({ Iterate(ws, rows, env.failAt - (done + 1)) :
                rows \in {QueryRows(ws, selector, env.descending)} })

\* record.HashValue of each meta entry of a listing.
HashValuesOf(metaInfos) == [i \in 1..Len(metaInfos) |-> metaInfos[i].hash_value]

\* Get_Student_*_HashValues: the digests of the meta entries a selector
\* matches.
HashValues(ws, selector, done, env) ==
    Only({ IF r.err # Nil THEN r
           ELSE Result(Nil, HashValuesOf(r.value), r.calls, r.unclosed) :
           r \in {MetaInfos(ws, selector, done, env)} })

StudentSelector(relation, hei, studentID) ==
    [owner |-> hei, relation |-> relation, student_id |-> studentID]

HEISelector(relation, hei) == [owner |-> hei, relation |-> relation]

Get_Student_StudentInfo_HashValues(ws, hei, studentID, done, env) ==
    HashValues(ws, StudentSelector("StudentInfo", hei, studentID), done, env)

Get_Student_CourseInfos_HashValues(ws, hei, studentID, done, env) ==
    HashValues(ws, StudentSelector("CourseInfo", hei, studentID), done, env)

Get_Student_TakenCourses_HashValues(ws, hei, studentID, done, env) ==
    HashValues(ws, StudentSelector("TakenCourse", hei, studentID), done, env)

Get_HEI_MetaInfos_TakenCoursesLenient(ws, hei, done, env) ==
    IF GetQueryResult(ws, HEISelector("TakenCourse", hei)) = {}
    THEN Result(Nil, <<>>, Calls("GetQueryResult", 1), 0)
    ELSE MetaInfos(ws, HEISelector("TakenCourse", hei), done, env)

Get_HEI_MetaInfos_TakenCourses(ws, hei, done, env) ==
    MetaInfos(ws, HEISelector("TakenCourse", hei), done, env)

Get_HEI_MetaInfos_StudentInfos(ws, hei, done, env) ==
    MetaInfos(ws, HEISelector("StudentInfo", hei), done, env)

Get_HEI_MetaInfos_CourseInfos(ws, hei, done, env) ==
    MetaInfos(ws, HEISelector("CourseInfo", hei), done, env)

UnmarshalUntagged(kind, doc) ==
    [f \in {Fields(kind)[i] : i \in 1..Len(Fields(kind))} |->
        IF f \in DOMAIN doc THEN doc[f] ELSE ZeroOf(FieldType(kind, f))]

\* json.Unmarshal(jsonData, &record) into a struct of a kind: a field takes
\* the member of its json tag, or stays zero when the document has none.
Unmarshal(kind, doc) ==
    [f \in {Fields(kind)[i] : i \in 1..Len(Fields(kind))} |->
        IF JsonTag(f) \in DOMAIN doc THEN doc[JsonTag(f)]
        ELSE ZeroOf(FieldType(kind, f))]

ByHashValueIgnoringReadError(ws, kind, hashValue, done, env) ==
    IF hashValue \notin DOMAIN ws
    THEN Result(Errorf(FmtNoHash, hashValue), NilValue, Calls("GetState", 1), 0)
    ELSE Result(Nil, Unmarshal(kind, ws[hashValue]), Calls("GetState", 1), 0)

ByHashValueWritingBack(ws, kind, hashValue, done, env) ==
    IF env.failAt = done + 1
    THEN Result(Errorf(FmtRead, ErrBackend), NilValue, Calls("GetState", 1), 0)
    ELSE IF hashValue \notin DOMAIN ws
    THEN Result(Errorf(FmtNoHash, hashValue), NilValue, Calls("GetState", 1), 0)
    ELSE Result(Nil, Unmarshal(kind, ws[hashValue]), <<"GetState", "PutState">>, 0)

\* Get_StudentInfo_ByHashValue, Get_CourseInfo_ByHashValue and
\* Get_TakenCourse_ByHashValue.
ByHashValue(ws, kind, hashValue, done, env) ==
    IF env.failAt = done + 1
    THEN Result(Errorf(FmtRead, ErrBackend), NilValue, Calls("GetState", 1), 0)
    ELSE IF hashValue \notin DOMAIN ws
    THEN Result(Errorf(FmtNoHash, hashValue), NilValue, Calls("GetState", 1), 0)
    ELSE Result(Nil, Unmarshal(kind, ws[hashValue]), Calls("GetState", 1), 0)

Get_StudentInfo_ByHashValue(ws, hashValue, done, env) ==
    ByHashValue(ws, "StudentInfo", hashValue, done, env)

Get_CourseInfo_ByHashValue(ws, hashValue, done, env) ==
    ByHashValue(ws, "CourseInfo", hashValue, done, env)

Get_TakenCourse_ByHashValue(ws, hashValue, done, env) ==
    ByHashValue(ws, "TakenCourse", hashValue, done, env)

FetchLoopSkippingErrors(fetched) ==
    Only({ IF ok = {}
           THEN Result(fetched[1].err, NilValue, Calls("GetState", 1), 0)
           ELSE Only({ Result(Nil, [i \in 1..Len(found) |-> fetched[found[i]].value],
                              Calls("GetState", Len(fetched)), 0) :
                       found \in {[i \in 1..Cardinality(ok) |->
                                     Only({j \in ok :
                                             Cardinality({k \in ok : k < j}) = i - 1})]} }) :
           ok \in {{i \in 1..Len(fetched) : fetched[i].err = Nil}} })

\* The loop that dereferences a list of digests through Get_*_ByHashValue
\* and stops at the first error: fetched[i] is what the i-th call returns.
FetchLoop(fetched) ==
    Only({ IF failed = {}
           THEN Result(Nil, [i \in 1..Len(fetched) |-> fetched[i].value],
                       Calls("GetState", Len(fetched)), 0)
           ELSE Only({ Result(fetched[first].err, NilValue, Calls("GetState", first), 0) :
                       first \in {i \in failed : \A j \in failed : i <= j} }) :
           failed \in {{i \in 1..Len(fetched) : fetched[i].err # Nil}} })

FetchAll(ws, kind, hashValues, done, env) ==
    Only({ FetchLoop(fetched) :
           fetched \in {[i \in 1..Len(hashValues) |->
                           ByHashValue(ws, kind, hashValues[i], done + i - 1, env)]} })

\* The body shared by the six list handlers: listing is what the meta-index
\* helper returned, hashValues the digests read from its value.
Records(ws, kind, listing, hashValues, format, done, env) ==
    IF listing.err # Nil
    THEN Result(Errorf(FmtRead, listing.err), NilValue, listing.calls, listing.unclosed)
    ELSE Only({ IF f.err # Nil
                THEN Result(Errorf(format, f.err), NilValue, listing.calls \o f.calls,
                            listing.unclosed)
                ELSE Result(Nil, f.value, listing.calls \o f.calls, listing.unclosed) :
                f \in {FetchAll(ws, kind, hashValues, done + Len(listing.calls), env)} })

FirstOf(r) == IF r.err # Nil THEN r ELSE Result(Nil, r.value[1], r.calls, r.unclosed)

\* recordStudentInfo after the loop: the record fetched last.
LastOf(r) == IF r.err # Nil THEN r ELSE Result(Nil, r.value[Len(r.value)], r.calls, r.unclosed)

Get_Student_StudentInfo(ws, hei, studentID, done, env) ==
    Only({ Only({ LastOf(r) :
                  r \in {Records(ws, "StudentInfo", listing, listing.value, FmtFetch,
                                 done, env)} }) :
           listing \in {Get_Student_StudentInfo_HashValues(ws, hei, studentID, done, env)} })

Get_Student_CourseInfos(ws, hei, studentID, done, env) ==
    Only({ Records(ws, "CourseInfo", listing, listing.value, FmtFetch, done, env) :
           listing \in {Get_Student_CourseInfos_HashValues(ws, hei, studentID, done, env)} })

Get_Student_TakenCourses(ws, hei, studentID, done, env) ==
    Only({ Records(ws, "TakenCourse", listing, listing.value, FmtFetch, done, env) :
           listing \in {Get_Student_TakenCourses_HashValues(ws, hei, studentID, done, env)} })

DigestsDistinct(listing) ==
    IF listing.err # Nil THEN <<>>
    ELSE Only({ Only({ [i \in 1..Cardinality(keep) |->
                          hv[Only({j \in keep : Cardinality({k \in keep : k < j}) = i - 1})]] :
                       keep \in {{i \in 1..Len(hv) : \A j \in 1..(i - 1) : hv[j] # hv[i]}} }) :
                hv \in {HashValuesOf(listing.value)} })

\* The digests a Get_HEI_* handler reads from the meta entries listed.
Digests(listing) == IF listing.err # Nil THEN <<>> ELSE HashValuesOf(listing.value)

Get_HEI_TakenCourses(ws, hei, done, env) ==
    Only({ Records(ws, "TakenCourse", listing, Digests(listing), FmtBare, done, env) :
           listing \in {Get_HEI_MetaInfos_TakenCourses(ws, hei, done, env)} })

Get_HEI_StudentInfos(ws, hei, done, env) ==
    Only({ Records(ws, "StudentInfo", listing, Digests(listing), FmtBare, done, env) :
           listing \in {Get_HEI_MetaInfos_StudentInfos(ws, hei, done, env)} })

Get_HEI_CourseInfos(ws, hei, done, env) ==
    Only({ Records(ws, "CourseInfo", listing, Digests(listing), FmtBare, done, env) :
           listing \in {Get_HEI_MetaInfos_CourseInfos(ws, hei, done, env)} })

\* newCourseCombined after both groups of assignments.
CombinedCourseRecords(course, info) ==
    [CourseCode |-> course.CourseCode, CourseName |-> info.CourseName,
     CourseType |-> info.CourseType, ECTS |-> info.ECTS, Credit |-> info.Credit,
     Grade |-> course.Grade, Point |-> course.Point,
     TakenSemester |-> course.TakenSemester]

RECURSIVE JoinInfosFirstMatch(_, _)
JoinInfosFirstMatch(course, infoCourses) ==
    IF Len(infoCourses) = 0 THEN <<>>
    ELSE IF course.CourseCode = infoCourses[1].CourseCode
    THEN <<CombinedCourseRecords(course, infoCourses[1])>>
    ELSE JoinInfosFirstMatch(course, Tail(infoCourses))

JoinInfosUnconditional(course, infoCourses) ==
    [i \in 1..Len(infoCourses) |-> CombinedCourseRecords(course, infoCourses[i])]

\* The inner loop of GetStudentTranscript over infoCourses.
RECURSIVE JoinInfos(_, _)
JoinInfos(course, infoCourses) ==
    IF Len(infoCourses) = 0 THEN <<>>
    ELSE (IF course.CourseCode = infoCourses[1].CourseCode
          THEN <<CombinedCourseRecords(course, infoCourses[1])>> ELSE <<>>)
         \o JoinInfos(course, Tail(infoCourses))

RECURSIVE JoinCoursesBackwards(_, _)
JoinCoursesBackwards(coursesTaken, infoCourses) ==
    IF Len(coursesTaken) = 0 THEN <<>>
    ELSE JoinCoursesBackwards(Tail(coursesTaken), infoCourses)
         \o JoinInfos(coursesTaken[1], infoCourses)

\* The outer loop of GetStudentTranscript over coursesTaken.
RECURSIVE JoinCourses(_, _)
JoinCourses(coursesTaken, infoCourses) ==
    IF Len(coursesTaken) = 0 THEN <<>>
    ELSE JoinInfos(coursesTaken[1], infoCourses)
         \o JoinCourses(Tail(coursesTaken), infoCourses)

StudentTranscript(infoStudent, courses) ==
    [InfoStudent |-> infoStudent, Courses |-> courses]

\* GetStudentTranscript once its three reads have returned.
Transcript(infoStudent, infoCourses, coursesTaken) ==
    Result(Nil,
           StudentTranscript(infoStudent.value,
                             JoinCourses(coursesTaken.value, infoCourses.value)),
           infoStudent.calls \o infoCourses.calls \o coursesTaken.calls,
           infoStudent.unclosed + infoCourses.unclosed + coursesTaken.unclosed)

\* GetStudentTranscript from its third read on.
TranscriptTaken(infoStudent, infoCourses, coursesTaken) ==
    IF coursesTaken.err # Nil
    THEN Result(Errorf(FmtTranscript, coursesTaken.err), NilValue,
                infoStudent.calls \o infoCourses.calls \o coursesTaken.calls,
                infoStudent.unclosed + infoCourses.unclosed + coursesTaken.unclosed)
    ELSE Transcript(infoStudent, infoCourses, coursesTaken)

TranscriptCoursesLenient(ws, hei, studentID, done, env, infoStudent, infoCourses) ==
    Only({ TranscriptTaken(infoStudent,
                           IF infoCourses.err # Nil
                           THEN Result(Nil, <<>>, infoCourses.calls, infoCourses.unclosed)
                           ELSE infoCourses,
                           coursesTaken) :
           coursesTaken \in {Get_Student_TakenCourses(ws, hei, studentID,
               done + Len(infoStudent.calls) + Len(infoCourses.calls), env)} })

\* GetStudentTranscript from its second read on.
TranscriptCourses(ws, hei, studentID, done, env, infoStudent, infoCourses) ==
    IF infoCourses.err # Nil
    THEN Result(Errorf(FmtTranscript, infoCourses.err), NilValue,
                infoStudent.calls \o infoCourses.calls,
                infoStudent.unclosed + infoCourses.unclosed)
    ELSE Only({ TranscriptTaken(infoStudent, infoCourses, coursesTaken) :
                coursesTaken \in {Get_Student_TakenCourses(ws, hei, studentID,
                    done + Len(infoStudent.calls) + Len(infoCourses.calls), env)} })

\* GetStudentTranscript from its first read on.
TranscriptStudent(ws, hei, studentID, done, env, infoStudent) ==
    IF infoStudent.err # Nil
    THEN Result(Errorf(FmtTranscript, infoStudent.err), NilValue,
                infoStudent.calls, infoStudent.unclosed)
    ELSE Only({ TranscriptCourses(ws, hei, studentID, done, env, infoStudent, infoCourses) :
                infoCourses \in {Get_Student_CourseInfos(ws, hei, studentID,
                                     done + Len(infoStudent.calls), env)} })

GetStudentTranscript(ws, hei, studentID, done, env) ==
    Only({ TranscriptStudent(ws, hei, studentID, done, env, infoStudent) :
           infoStudent \in {Get_Student_StudentInfo(ws, hei, studentID, done, env)} })

(***************************************************************************)
(* Callers and their inputs                                                *)
(***************************************************************************)
Clients == {"c1", "c2"}

FailAt == {0, 1, 2, 3}

FBU == "Fenerbahce University"
IU == "Istanbul University"

SeedProfile(owner) ==
    [owner |-> owner, faculty |-> "Faculty of Engineering and Architecture",
     department |-> "Department of Computer Engineering", studentId |-> 190908809,
     surname |-> "Selvi", name |-> "Osman", nationalid |-> "44262495576",
     registrationdate |-> "02.09.2022", registrationtype |-> "Major / OSYM",
     programtype |-> "Undergraduate", class |-> 1, semester |-> 1]

StudentInfoCalls ==
    { SeedProfile(FBU), SeedProfile(IU),
      [SeedProfile(FBU) EXCEPT !.studentId = 299799009, !.name = "Ahmet",
                               !.class = 2, !.semester = 3],
      \* the seeded student two semesters later
      [SeedProfile(FBU) EXCEPT !.class = 2, !.semester = 3] }

TakenCourseCalls ==
    { [owner |-> FBU, studentId |-> 190908809, courseCode |-> "COMP1001",
       grade |-> "AA", point |-> 200, takenSemester |-> 1],
      [owner |-> IU, studentId |-> 190908809, courseCode |-> "COMP1001",
       grade |-> "AA", point |-> 200, takenSemester |-> 1],
      [owner |-> FBU, studentId |-> 190908809, courseCode |-> "COMP2004",
       grade |-> "BB", point |-> 180, takenSemester |-> 4] }

CourseInfoCalls ==
    \* the seeded catalog entry of COMP1001 with its ECTS revised
    { [owner |-> FBU, studentnumber |-> 190908809, courseCode |-> "COMP1001",
       courseName |-> "Fundamentals of Computer Engineering", courseType |-> "C",
       ects |-> 6, credit |-> 3] }
    \cup
    { [owner |-> c[1], studentnumber |-> c[2], courseCode |-> "COMP2004",
       courseName |-> "Database Management Systems", courseType |-> "C",
       ects |-> 6, credit |-> 3] :
         c \in {<<FBU, 190908809>>, <<FBU, 299799009>>, <<IU, 190908809>>} }
    \cup
    \* A catalog entry whose canonical string is that of the seeded taken
    \* course COMP1001: "190908809,COMP1001,AA,20,1".
    { [owner |-> IU, studentnumber |-> 190908809, courseCode |-> "190908809",
       courseName |-> "COMP1001", courseType |-> "AA", ects |-> 20, credit |-> 1] }

(***************************************************************************)
(* Host transactions: an invocation runs its handler against the committed *)
(* world state; the host later commits its writes as a unit if it returned *)
(* no error, and discards them otherwise.                                  *)
(***************************************************************************)
NoTx == [op |-> "none"]
NoArgs == [none |-> TRUE]
NoResponse == [op |-> "none"]

Tx(op, a, failAt, r) ==
    [op |-> op, args |-> a, failAt |-> failAt, ok |-> r.ok, err |-> r.err,
     writes |-> r.writes]

RECURSIVE ApplyWrites(_, _)
ApplyWrites(ws, writes) ==
    IF Len(writes) = 0 THEN ws
    ELSE ApplyWrites(PutState(ws, writes[1].key, writes[1].value), Tail(writes))

IdleHarness ==
    /\ hKind = "none"
    /\ hA = NoArgs
    /\ hB = NoArgs
    /\ hOut = NoArgs

EmptyStore ==
    /\ worldState = [k \in {} |-> NoArgs]
    /\ pending = [c \in Clients |-> NoTx]
    /\ invoked = 0
    /\ succeeded = {}
    /\ response = NoResponse

Init == EmptyStore /\ IdleHarness

\* The host hands client c's invocation to its handler; tx is what the
\* handler returned and wrote.
Begin(c, tx) ==
    /\ pending' = [pending EXCEPT ![c] = tx]
    /\ invoked' = invoked + 1
    /\ response' = NoResponse
    /\ UNCHANGED <<worldState, succeeded>>
    /\ UNCHANGED hashVars

InvokeInitLedger ==
    \E c \in Clients, failAt \in FailAt :
        /\ pending[c] = NoTx
        /\ invoked < MaxInvocations
        /\ Begin(c, Tx("InitLedger", NoArgs, failAt, InitLedger(worldState, failAt)))

InvokeInsertNewRecordStudentInfo ==
    \E c \in Clients, a \in StudentInfoCalls, failAt \in FailAt :
        /\ pending[c] = NoTx
        /\ invoked < MaxInvocations
        /\ Begin(c, Tx("InsertNewRecordStudentInfo", a, failAt,
                       InsertNewRecordStudentInfo(worldState, a, failAt)))

InvokeInsertNewRecordTakenCourse ==
    \E c \in Clients, a \in TakenCourseCalls, failAt \in FailAt :
        /\ pending[c] = NoTx
        /\ invoked < MaxInvocations
        /\ Begin(c, Tx("InsertNewRecordTakenCourse", a, failAt,
                       InsertNewRecordTakenCourse(worldState, a, failAt)))

InvokeInsertNewRecordCourseInfo ==
    \E c \in Clients, a \in CourseInfoCalls, failAt \in FailAt :
        /\ pending[c] = NoTx
        /\ invoked < MaxInvocations
        /\ Begin(c, Tx("InsertNewRecordCourseInfo", a, failAt,
                       InsertNewRecordCourseInfo(worldState, a, failAt)))

\* The queries a caller submits.
HEIs == {FBU, IU}
StudentIDs == {"190908809", "299799009"}
QueryFailAt == {0, 1, 2, 3, 5, 7}

\* What a query handed back to its caller.
Response(op, hei, studentID, env, r) ==
    [op |-> op, hei |-> hei, studentID |-> studentID, failAt |-> env.failAt,
     descending |-> env.descending, err |-> r.err, value |-> r.value,
     calls |-> r.calls, unclosed |-> r.unclosed]

\* A query is evaluated against the committed world state and writes
\* nothing; the caller calls again once it has read the response.
Respond(resp) ==
    /\ response' = resp
    /\ UNCHANGED <<worldState, pending, invoked, succeeded>>
    /\ UNCHANGED hashVars

QueryGet_Student_StudentInfo ==
    \E hei \in HEIs, studentID \in StudentIDs, failAt \in QueryFailAt, d \in BOOLEAN :
        /\ response = NoResponse
        /\ \E r \in {Get_Student_StudentInfo(worldState, hei, studentID, 0, Env(failAt, d))} :
               Respond(Response("Get_Student_StudentInfo", hei, studentID, Env(failAt, d), r))

QueryGet_Student_CourseInfos ==
    \E hei \in HEIs, studentID \in StudentIDs, failAt \in QueryFailAt, d \in BOOLEAN :
        /\ response = NoResponse
        /\ \E r \in {Get_Student_CourseInfos(worldState, hei, studentID, 0, Env(failAt, d))} :
               Respond(Response("Get_Student_CourseInfos", hei, studentID, Env(failAt, d), r))

QueryGet_Student_TakenCourses ==
    \E hei \in HEIs, studentID \in StudentIDs, failAt \in QueryFailAt, d \in BOOLEAN :
        /\ response = NoResponse
        /\ \E r \in {Get_Student_TakenCourses(worldState, hei, studentID, 0, Env(failAt, d))} :
               Respond(Response("Get_Student_TakenCourses", hei, studentID, Env(failAt, d), r))

QueryGet_HEI_TakenCourses ==
    \E hei \in HEIs, failAt \in QueryFailAt, d \in BOOLEAN :
        /\ response = NoResponse
        /\ \E r \in {Get_HEI_TakenCourses(worldState, hei, 0, Env(failAt, d))} :
               Respond(Response("Get_HEI_TakenCourses", hei, "", Env(failAt, d), r))

QueryGet_HEI_StudentInfos ==
    \E hei \in HEIs, failAt \in QueryFailAt, d \in BOOLEAN :
        /\ response = NoResponse
        /\ \E r \in {Get_HEI_StudentInfos(worldState, hei, 0, Env(failAt, d))} :
               Respond(Response("Get_HEI_StudentInfos", hei, "", Env(failAt, d), r))

QueryGet_HEI_CourseInfos ==
    \E hei \in HEIs, failAt \in QueryFailAt, d \in BOOLEAN :
        /\ response = NoResponse
        /\ \E r \in {Get_HEI_CourseInfos(worldState, hei, 0, Env(failAt, d))} :
               Respond(Response("Get_HEI_CourseInfos", hei, "", Env(failAt, d), r))

\* The digests a caller looks up directly: those of a seeded profile, of a
\* seeded taken course and of a catalog entry its callers insert, and one of
\* no record.
AbsentDigest == StringToMD5("")

HashValueCalls ==
    { StructToMD5(Students[1]), StructToMD5(TakenCourses[1]),
      StructToMD5([CourseCode |-> "COMP2004",
                   CourseName |-> "Database Management Systems", CourseType |-> "C",
                   ECTS |-> 6, Credit |-> 3, HashValue |-> ""]),
      AbsentDigest }

LookupFailAt == {0, 1}

\* What a lookup by digest handed back to its caller.
LookupResponse(op, hashValue, env, r) ==
    [op |-> op, hashValue |-> hashValue, failAt |-> env.failAt, err |-> r.err,
     value |-> r.value, calls |-> r.calls, unclosed |-> r.unclosed]

QueryGet_StudentInfo_ByHashValue ==
    \E hashValue \in HashValueCalls, failAt \in LookupFailAt :
        /\ response = NoResponse
        /\ \E r \in {Get_StudentInfo_ByHashValue(worldState, hashValue, 0, Env(failAt, FALSE))} :
               Respond(LookupResponse("Get_StudentInfo_ByHashValue", hashValue,
                                      Env(failAt, FALSE), r))

QueryGet_CourseInfo_ByHashValue ==
    \E hashValue \in HashValueCalls, failAt \in LookupFailAt :
        /\ response = NoResponse
        /\ \E r \in {Get_CourseInfo_ByHashValue(worldState, hashValue, 0, Env(failAt, FALSE))} :
               Respond(LookupResponse("Get_CourseInfo_ByHashValue", hashValue,
                                      Env(failAt, FALSE), r))

QueryGet_TakenCourse_ByHashValue ==
    \E hashValue \in HashValueCalls, failAt \in LookupFailAt :
        /\ response = NoResponse
        /\ \E r \in {Get_TakenCourse_ByHashValue(worldState, hashValue, 0, Env(failAt, FALSE))} :
               Respond(LookupResponse("Get_TakenCourse_ByHashValue", hashValue,
                                      Env(failAt, FALSE), r))

\* What IsRecordExists handed back to its caller.
ExistsResponse(hei, studentID, hashValue, queryFails, r) ==
    [op |-> "IsRecordExists", hei |-> hei, studentID |-> studentID,
     hashValue |-> hashValue, failAt |-> (IF queryFails THEN 1 ELSE 0),
     exists |-> r.exists, err |-> r.err, calls |-> Calls("GetQueryResult", 1),
     unclosed |-> r.unclosed]

QueryIsRecordExists ==
    \E hei \in HEIs, studentID \in StudentIDs, hashValue \in HashValueCalls,
       queryFails \in BOOLEAN :
        /\ response = NoResponse
        /\ \E r \in {IsRecordExists(worldState, hei, studentID, hashValue, queryFails)} :
               Respond(ExistsResponse(hei, studentID, hashValue, queryFails, r))

QueryGetStudentTranscript ==
    \E hei \in HEIs, studentID \in StudentIDs, failAt \in QueryFailAt, d \in BOOLEAN :
        /\ response = NoResponse
        /\ \E r \in {GetStudentTranscript(worldState, hei, studentID, 0, Env(failAt, d))} :
               Respond(Response("GetStudentTranscript", hei, studentID, Env(failAt, d), r))

\* What the host applies when an invocation ends.
Committed(ws, tx) == IF tx.err = Nil THEN ApplyWrites(ws, tx.writes) ELSE ws

Commit ==
    \E c \in Clients :
        /\ pending[c] # NoTx
        /\ worldState' = Committed(worldState, pending[c])
        /\ succeeded' =
              IF pending[c].ok /\ pending[c].op # "InitLedger"
              THEN succeeded \cup {[op |-> pending[c].op, args |-> pending[c].args]}
              ELSE succeeded
        /\ pending' = [pending EXCEPT ![c] = NoTx]
        /\ response' = NoResponse
        /\ UNCHANGED invoked
        /\ UNCHANGED hashVars

Next ==
    \/ InvokeInitLedger
    \/ InvokeInsertNewRecordStudentInfo
    \/ InvokeInsertNewRecordTakenCourse
    \/ InvokeInsertNewRecordCourseInfo
    \/ Commit

Spec == Init /\ [][Next]_vars

(***************************************************************************)
(* A caller that waits for each transaction to be committed before its     *)
(* next invocation or query.                                               *)
(***************************************************************************)
\* The host runs the handler and commits what it wrote in one step; the
\* caller receives what the handler returned.
Submit(tx) ==
    /\ invoked' = invoked + 1
    /\ worldState' = Committed(worldState, tx)
    /\ succeeded' =
          IF tx.ok /\ tx.op # "InitLedger"
          THEN succeeded \cup {[op |-> tx.op, args |-> tx.args]}
          ELSE succeeded
    /\ response' = tx
    /\ UNCHANGED pending
    /\ UNCHANGED hashVars

SubmitInitLedger ==
    \E failAt \in FailAt :
        /\ response = NoResponse
        /\ invoked < MaxSubmissions
        /\ Submit(Tx("InitLedger", NoArgs, failAt, InitLedger(worldState, failAt)))

SubmitInsertNewRecordStudentInfo ==
    \E a \in StudentInfoCalls, failAt \in FailAt :
        /\ response = NoResponse
        /\ invoked < MaxSubmissions
        /\ Submit(Tx("InsertNewRecordStudentInfo", a, failAt,
                     InsertNewRecordStudentInfo(worldState, a, failAt)))

SubmitInsertNewRecordTakenCourse ==
    \E a \in TakenCourseCalls, failAt \in FailAt :
        /\ response = NoResponse
        /\ invoked < MaxSubmissions
        /\ Submit(Tx("InsertNewRecordTakenCourse", a, failAt,
                     InsertNewRecordTakenCourse(worldState, a, failAt)))

SubmitInsertNewRecordCourseInfo ==
    \E a \in CourseInfoCalls, failAt \in FailAt :
        /\ response = NoResponse
        /\ invoked < MaxSubmissions
        /\ Submit(Tx("InsertNewRecordCourseInfo", a, failAt,
                     InsertNewRecordCourseInfo(worldState, a, failAt)))

\* The caller has read the response of its last call.
Receive ==
    /\ response # NoResponse
    /\ response' = NoResponse
    /\ UNCHANGED <<worldState, pending, invoked, succeeded>>
    /\ UNCHANGED hashVars

QueryNext ==
    \/ SubmitInitLedger
    \/ SubmitInsertNewRecordStudentInfo
    \/ SubmitInsertNewRecordTakenCourse
    \/ SubmitInsertNewRecordCourseInfo
    \/ QueryGet_Student_StudentInfo
    \/ QueryGet_Student_CourseInfos
    \/ QueryGet_Student_TakenCourses
    \/ QueryGet_HEI_TakenCourses
    \/ QueryGet_HEI_StudentInfos
    \/ QueryGet_HEI_CourseInfos
    \/ QueryGetStudentTranscript
    \/ QueryGet_StudentInfo_ByHashValue
    \/ QueryGet_CourseInfo_ByHashValue
    \/ QueryGet_TakenCourse_ByHashValue
    \/ QueryIsRecordExists
    \/ Receive

QuerySpec == Init /\ [][QueryNext]_vars

(***************************************************************************)
(* The fetch loop of the list handlers on its own: the digest list that    *)
(* the meta-index helper hands to the loop is an input, so that the loop   *)
(* also meets digests under which the store holds nothing.                 *)
(***************************************************************************)
MaxDigests == 2

\* The digests the meta entries of one relation carry.
ListedDigests(ws, relation) ==
    {ws[k].hash_value : k \in GetQueryResult(ws, [relation |-> relation])}

\* The digest lists handed to the loop.
DigestLists(ws, relation) ==
    UNION {[1..n -> ListedDigests(ws, relation) \cup {AbsentDigest}] : n \in 1..MaxDigests}

\* What the meta-index helper returned when hashValues is what the handler
\* read from it.
ListingOf(hashValues) ==
    Result(Nil, hashValues,
           Calls("GetQueryResult", 1) \o Calls("Next", Len(hashValues)), 0)

FetchResponse(kind, hashValues, r) ==
    [op |-> "FetchByHashValues", kind |-> kind, hashValues |-> hashValues,
     err |-> r.err, value |-> r.value, calls |-> r.calls, unclosed |-> r.unclosed]

\* A list handler from the return of its meta-index helper on.
FetchByHashValues ==
    \E kind \in {"StudentInfo", "TakenCourse", "CourseInfo"} :
        /\ response = NoResponse
        /\ \E hashValues \in DigestLists(worldState, kind) :
              \E r \in {Records(worldState, kind, ListingOf(hashValues), hashValues,
                                 FmtFetch, 0, Env(0, FALSE))} :
                  Respond(FetchResponse(kind, hashValues, r))

FetchNext ==
    \/ QueryNext
    \/ FetchByHashValues

FetchSpec == Init /\ [][FetchNext]_vars

(***************************************************************************)
(* Hashing harness: two structs of one kind are populated field by field,  *)
(* as the handlers populate theirs, and then both are hashed.              *)
(***************************************************************************)
Kinds == {"StudentInfo", "TakenCourse", "CourseInfo"}

\* Non-zero values a field of each Go type is assigned.
ValuesOf(type) ==
    CASE type = "string" -> {"a", ","}
      [] type = "int" -> {7, 10}
      [] type = "float32" -> {70, 75}

FieldSet(kind) == {Fields(kind)[i] : i \in 1..Len(Fields(kind))}

\* The fields of s holding a non-zero value.
Assigned(s) == {f \in DOMAIN s : s[f] # ZeroOf(FieldType(TypeOf(s), f))}

NotHashed == [hashed |-> FALSE]

HInit ==
    /\ EmptyStore
    /\ hKind \in Kinds
    /\ hA = ZeroStruct(hKind)
    /\ hB = ZeroStruct(hKind)
    /\ hOut = NotHashed

\* `record.Field = value` on one of the two structs.
HAssign ==
    /\ hOut = NotHashed
    /\ Cardinality(Assigned(hA)) + Cardinality(Assigned(hB)) < MaxAssign
    /\ \E f \in FieldSet(hKind) :
         \E v \in ValuesOf(FieldType(hKind, f)) :
            \/ /\ f \notin Assigned(hA)
               /\ hA' = [hA EXCEPT ![f] = v]
               /\ hB' = hB
            \/ /\ f \notin Assigned(hB)
               /\ hB' = [hB EXCEPT ![f] = v]
               /\ hA' = hA
    /\ UNCHANGED <<hKind, hOut>>
    /\ UNCHANGED storeVars

\* StructToString and StructToMD5 applied to both structs.
HHash ==
    /\ hOut = NotHashed
    /\ hOut' = [hashed |-> TRUE,
                strA |-> StructToString(hA), strB |-> StructToString(hB),
                md5A |-> StructToMD5(hA), md5B |-> StructToMD5(hB)]
    /\ UNCHANGED <<hKind, hA, hB>>
    /\ UNCHANGED storeVars

HNext == HAssign \/ HHash

HashSpec == HInit /\ [][HNext]_vars

(***************************************************************************)
(* Properties of the canonical hasher (checked under HashSpec)             *)
(***************************************************************************)
\* The fields in which the two structs of the harness differ.
Differing == {f \in FieldSet(hKind) : hA[f] # hB[f]}

\* C7 (as claimed): two records that agree on every field except HashValue
\* get the same digest from StructToMD5, whatever HashValue holds.
C7_DigestExclusion ==
    (hOut.hashed /\ Differing \subseteq {"HashValue"}) => hOut.md5A = hOut.md5B

\* C8: changing the value of one single non-digest field, all other fields
\* (the digest field included) kept the same, changes the canonical string
\* and, with the collision-free digest, the digest.
C8_Sensitivity ==
    (hOut.hashed /\ Cardinality(Differing) = 1 /\ "HashValue" \notin Differing)
        => (hOut.strA # hOut.strB /\ hOut.md5A # hOut.md5B)

\* Two hashed structs that differ in exactly one non-digest field while both
\* carry the same non-empty HashValue.
C8_Witness ==
    /\ hOut.hashed
    /\ Cardinality(Differing) = 1
    /\ "HashValue" \notin Differing
    /\ hA.HashValue # ""
    /\ hOut.strA # hOut.strB

\* C9 (as claimed): two records of one kind that differ in at least one
\* non-digest field never produce the same canonical string.
C9_UnambiguousCanonicalForm ==
    (hOut.hashed /\ Differing \ {"HashValue"} # {}) => hOut.strA # hOut.strB

(***************************************************************************)
(* Properties of the insertion pipeline (checked under Spec)               *)
(***************************************************************************)
InsertOps ==
    {"InsertNewRecordStudentInfo", "InsertNewRecordTakenCourse",
     "InsertNewRecordCourseInfo"}

\* The step in which client c's invocation runs its handler.
Begins(c) == pending[c] = NoTx /\ pending'[c] # NoTx

\* The step in which the host ends client c's invocation.
Ends(c) == pending[c] # NoTx /\ pending'[c] = NoTx

CallOf(tx) == [op |-> tx.op, args |-> tx.args]

\* What a call is expected to store, written out from its arguments.
ExpectedSubject(tx) ==
    IF tx.op = "InsertNewRecordCourseInfo"
    THEN Itoa(tx.args.studentnumber) ELSE Itoa(tx.args.studentId)

ExpectedRelation(tx) ==
    CASE tx.op = "InsertNewRecordStudentInfo" -> "StudentInfo"
      [] tx.op = "InsertNewRecordTakenCourse" -> "TakenCourse"
      [] tx.op = "InsertNewRecordCourseInfo" -> "CourseInfo"

ExpectedDigest(tx) ==
    LET a == tx.args
    IN CASE tx.op = "InsertNewRecordStudentInfo" ->
              "md5(" \o a.faculty \o "," \o a.department \o "," \o Itoa(a.studentId)
                \o "," \o a.surname \o "," \o a.name \o "," \o a.nationalid
                \o "," \o a.registrationdate \o "," \o a.registrationtype
                \o "," \o a.programtype \o "," \o Itoa(a.class)
                \o "," \o Itoa(a.semester) \o ")"
         [] tx.op = "InsertNewRecordTakenCourse" ->
              "md5(" \o Itoa(a.studentId) \o "," \o a.courseCode \o "," \o a.grade
                \o "," \o FormatFloat32(a.point) \o "," \o Itoa(a.takenSemester) \o ")"
         [] tx.op = "InsertNewRecordCourseInfo" ->
              "md5(" \o a.courseCode \o "," \o a.courseName \o "," \o a.courseType
                \o "," \o Itoa(a.ects) \o "," \o Itoa(a.credit) \o ")"

ExpectedData(tx) ==
    LET a == tx.args
    IN CASE tx.op = "InsertNewRecordStudentInfo" ->
              [faculty |-> a.faculty, department |-> a.department,
               student_id |-> a.studentId, student_surname |-> a.surname,
               student_name |-> a.name, national_id |-> a.nationalid,
               registration_date |-> a.registrationdate,
               registration_type |-> a.registrationtype,
               program_type |-> a.programtype, class |-> a.class,
               student_semester |-> a.semester, hash_value |-> ExpectedDigest(tx)]
         [] tx.op = "InsertNewRecordTakenCourse" ->
              [student_id |-> a.studentId, course_code |-> a.courseCode,
               grade |-> a.grade, point |-> a.point,
               taken_semester |-> a.takenSemester, hash_value |-> ExpectedDigest(tx)]
         [] tx.op = "InsertNewRecordCourseInfo" ->
              [course_code |-> a.courseCode, course_name |-> a.courseName,
               course_type |-> a.courseType, ects |-> a.ects, credit |-> a.credit,
               hash_value |-> ExpectedDigest(tx)]

ExpectedMeta(tx) ==
    [owner |-> tx.args.owner, student_id |-> ExpectedSubject(tx),
     relation |-> ExpectedRelation(tx), hash_value |-> ExpectedDigest(tx)]

ExpectedMetaKey(tx) ==
    NUL \o "heiID" \o NUL \o tx.args.owner \o NUL \o ExpectedSubject(tx)
        \o NUL \o ExpectedDigest(tx) \o NUL

IsMeta(doc) == "owner" \in DOMAIN doc

\* The meta entries of a world state for one (owner, subject, digest) triple.
MetaEntriesFor(ws, owner, subject, digest) ==
    {k \in DOMAIN ws :
        /\ IsMeta(ws[k])
        /\ ws[k].owner = owner
        /\ ws[k].student_id = subject
        /\ ws[k].hash_value = digest}

\* C1: an insert of a call that already succeeded and was committed returns
\* (false, error), the error being "the record you sent exists" unless the
\* existence query itself failed; and an insert of a triple not yet in the
\* meta index, with no backend failure, returns (true, nil).
C1_DuplicateRejection ==
    [][\A c \in Clients :
        (Begins(c) /\ pending'[c].op \in InsertOps) =>
            LET tx == pending'[c]
            IN /\ CallOf(tx) \in succeeded =>
                    /\ ~tx.ok
                    /\ tx.err # Nil
                    /\ tx.failAt # 1 => tx.err = ErrExists
               /\ (ExpectedMetaKey(tx) \notin DOMAIN worldState /\ tx.failAt = 0) =>
                    (tx.ok /\ tx.err = Nil)]_vars

\* A second, sequential insert of a call that succeeded was rejected.
C1_Witness ==
    \E c \in Clients :
        /\ pending[c].op = "InsertNewRecordCourseInfo"
        /\ CallOf(pending[c]) \in succeeded
        /\ pending[c].err = ErrExists
        /\ ~pending[c].ok

\* C2: an insert that fails at the existence check (the triple exists, or the
\* query failed) issued no PutState, and the committed store is the same
\* after the call as before it.
C2_RejectedInsertWritesNothing ==
    [][\A c \in Clients :
        (Ends(c) /\ pending[c].op \in InsertOps
                 /\ pending[c].err \in {ErrExists, ErrRead}) =>
            (pending[c].writes = << >> /\ worldState' = worldState)]_vars

\* Both kinds of rejection are pending against a non-empty store.
C2_Witness ==
    /\ DOMAIN worldState # {}
    /\ \E c \in Clients : pending[c].op \in InsertOps /\ pending[c].err = ErrExists
    /\ \E c \in Clients : pending[c].op \in InsertOps /\ pending[c].err = ErrRead

\* C3: a successful insert issued exactly two writes, the data record under
\* the digest first and the meta entry under the composite key second, and
\* once committed the store holds exactly these two documents there.
C3_SuccessfulInsertWrites ==
    [][\A c \in Clients :
        (Ends(c) /\ pending[c].op \in InsertOps /\ pending[c].ok) =>
            LET tx == pending[c]
            IN /\ tx.err = Nil
               /\ tx.writes = << [key |-> ExpectedDigest(tx), value |-> ExpectedData(tx)],
                                 [key |-> ExpectedMetaKey(tx), value |-> ExpectedMeta(tx)] >>
               /\ ExpectedDigest(tx) \in DOMAIN worldState'
               /\ worldState'[ExpectedDigest(tx)] = ExpectedData(tx)
               /\ ExpectedMetaKey(tx) \in DOMAIN worldState'
               /\ worldState'[ExpectedMetaKey(tx)] = ExpectedMeta(tx)]_vars

\* An insert of each kind has succeeded and its two documents are stored.
C3_Witness ==
    \A op \in InsertOps :
        \E call \in succeeded :
            /\ call.op = op
            /\ worldState[ExpectedDigest(call)] = ExpectedData(call)
            /\ worldState[ExpectedMetaKey(call)] = ExpectedMeta(call)

\* C4: in every committed store state every meta entry's hash_value is the
\* key of a stored data record, and every data record's key is the
\* hash_value of at least one meta entry.
C4_NoPartialEffects ==
    \A k \in DOMAIN worldState :
        IF IsMeta(worldState[k])
        THEN /\ worldState[k].hash_value \in DOMAIN worldState
             /\ ~IsMeta(worldState[worldState[k].hash_value])
        ELSE \E m \in DOMAIN worldState :
                IsMeta(worldState[m]) /\ worldState[m].hash_value = k

\* An invocation whose meta PutState failed after its data PutState went
\* through is pending, and its data record is not in the committed store.
C4_Witness ==
    /\ DOMAIN worldState # {}
    /\ \E c \in Clients :
          /\ pending[c].op \in InsertOps
          /\ pending[c].err = ErrPutMeta
          /\ Len(pending[c].writes) = 1
          /\ pending[c].writes[1].key \notin DOMAIN worldState
    /\ \E c \in Clients :
          /\ pending[c].op = "InitLedger"
          /\ pending[c].err # Nil
          /\ Len(pending[c].writes) > 0

\* C5: an insert whose digest is already the key of a stored data record
\* returns (true, nil), its meta entry among its writes, whenever no meta
\* entry has the same owner and the same subject and the same digest and no
\* backend call fails.
C5_TripleIsTheBoundary ==
    [][\A c \in Clients :
        (/\ Begins(c)
         /\ pending'[c].op \in InsertOps
         /\ pending'[c].failAt = 0
         /\ ExpectedDigest(pending'[c]) \in DOMAIN worldState
         /\ MetaEntriesFor(worldState, pending'[c].args.owner,
                           ExpectedSubject(pending'[c]),
                           ExpectedDigest(pending'[c])) = {}) =>
            /\ pending'[c].ok
            /\ pending'[c].err = Nil
            /\ \E i \in 1..Len(pending'[c].writes) :
                  pending'[c].writes[i] =
                      [key |-> ExpectedMetaKey(pending'[c]),
                       value |-> ExpectedMeta(pending'[c])]]_vars

\* One digest is indexed under two subjects of one institution and under a
\* second institution.
C5_Witness ==
    \E k1, k2, k3 \in DOMAIN worldState :
        /\ IsMeta(worldState[k1]) /\ IsMeta(worldState[k2]) /\ IsMeta(worldState[k3])
        /\ worldState[k1].hash_value = worldState[k2].hash_value
        /\ worldState[k1].hash_value = worldState[k3].hash_value
        /\ worldState[k1].owner = worldState[k2].owner
        /\ worldState[k1].student_id # worldState[k2].student_id
        /\ worldState[k3].owner # worldState[k1].owner

\* C6: the committed store never holds two meta entries for one (owner,
\* subject, digest) triple, and committing an insert identical to one already
\* committed adds no key and leaves its data record and its meta entry as a
\* single such insert stores them.
C6_NoDuplicateMetaUnderConcurrency ==
    /\ [](\A k \in DOMAIN worldState :
            IsMeta(worldState[k]) =>
                MetaEntriesFor(worldState, worldState[k].owner,
                               worldState[k].student_id,
                               worldState[k].hash_value) = {k})
    /\ [][\A c \in Clients :
            (Ends(c) /\ pending[c].op \in InsertOps /\ pending[c].ok
                     /\ CallOf(pending[c]) \in succeeded) =>
                /\ DOMAIN worldState' = DOMAIN worldState
                /\ worldState'[ExpectedDigest(pending[c])] = ExpectedData(pending[c])
                /\ worldState'[ExpectedMetaKey(pending[c])] = ExpectedMeta(pending[c])]_vars

\* Two identical inserts both passed the existence check; one is committed
\* and the other is still to be committed.
C6_Witness ==
    \E c \in Clients :
        /\ pending[c].op \in InsertOps
        /\ pending[c].ok
        /\ CallOf(pending[c]) \in succeeded
        /\ ExpectedMetaKey(pending[c]) \in DOMAIN worldState

\* C11: records are immutable once written: a key that holds a value in the
\* committed store is still there after every step, with the same value.
C11_Immutable ==
    [][\A k \in DOMAIN worldState :
          k \in DOMAIN worldState' /\ worldState'[k] = worldState[k]]_vars

\* The profile a successful InsertNewRecordStudentInfo(a) stored.
InsertedProfile(a) ==
    [StudentInfoOf(a) EXCEPT !.HashValue = StructToMD5(StudentInfoOf(a))]

\* The step in which a waiting caller's profile insert succeeds.
ProfileInserted == response'.op = "InsertNewRecordStudentInfo" /\ response'.ok

\* A read of the profile of the subject of call a in the store ws, with no
\* backend failure, returns the fields of a.
ReadsBack(ws, a) ==
    \A d \in BOOLEAN :
        \E r \in {Get_Student_StudentInfo(ws, a.owner, Itoa(a.studentId), 0, Env(0, d))} :
            r.err = Nil /\ r.value = InsertedProfile(a)

\* C12 as stated: after every successful InsertNewRecordStudentInfo, in
\* whatever store, Get_Student_StudentInfo of the same owner and subject
\* returns without error the profile just inserted.
C12_RoundTripAlways ==
    [][ProfileInserted => ReadsBack(worldState', response'.args)]_vars

\* The meta entries of the profiles of one subject of one institution.
ProfilesOf(ws, owner, subject) ==
    {k \in DOMAIN ws : Matches(ws[k], [owner |-> owner, relation |-> "StudentInfo",
                                       student_id |-> subject])}

\* C12: after a successful InsertNewRecordStudentInfo that leaves the subject
\* with a single profile, Get_Student_StudentInfo of the same owner and
\* subject returns without error the profile just inserted.
C12_RoundTrip ==
    [][ProfileInserted
         /\ Cardinality(ProfilesOf(worldState', response'.args.owner,
                                   Itoa(response'.args.studentId))) = 1
       => ReadsBack(worldState', response'.args)]_vars

\* A profile insert has just succeeded for a subject with no other profile.
C12_Witness ==
    /\ response.op = "InsertNewRecordStudentInfo"
    /\ response.ok
    /\ Cardinality(ProfilesOf(worldState, response.args.owner,
                              Itoa(response.args.studentId))) = 1
    /\ ReadsBack(worldState, response.args)

\* The records of one kind that the meta index lists for a subject of an
\* institution, as the handlers read them.
SubjectRecords(ws, kind, hei, subject) ==
    {Unmarshal(kind, ws[ws[k].hash_value]) :
        k \in GetQueryResult(ws, StudentSelector(kind, hei, subject))}

\* No backend call of the invocation behind a response failed.
NoFailure(resp) == resp.failAt = 0 \/ resp.failAt > Len(resp.calls)

\* The response to a GetStudentTranscript call that met no backend failure,
\* for a subject with a profile and a taken-course result.
TranscriptOfStudent ==
    /\ response.op = "GetStudentTranscript"
    /\ NoFailure(response)
    /\ SubjectRecords(worldState, "StudentInfo", response.hei, response.studentID) # {}
    /\ SubjectRecords(worldState, "TakenCourse", response.hei, response.studentID) # {}

\* The transcript of a response omits every taken course of the subject
\* whose code no catalog entry of the subject carries.
OmitsUnmatched ==
    /\ response.err = Nil
    /\ \A t \in SubjectRecords(worldState, "TakenCourse", response.hei, response.studentID) :
          (\A c \in SubjectRecords(worldState, "CourseInfo", response.hei,
                                   response.studentID) : c.CourseCode # t.CourseCode)
          => \A i \in 1..Len(response.value.Courses) :
                 response.value.Courses[i].CourseCode # t.CourseCode

\* C13 as stated: for a student with a profile and a taken-course result,
\* GetStudentTranscript returns a transcript without error and leaves out
\* the taken courses that match no catalog entry.
C13_LenientJoinAlways == TranscriptOfStudent => OmitsUnmatched

\* C13: the same for a student who also has at least one catalog entry.
C13_LenientJoin ==
    TranscriptOfStudent
      /\ SubjectRecords(worldState, "CourseInfo", response.hei, response.studentID) # {}
    => OmitsUnmatched

\* A transcript was returned for a student one of whose taken courses matches
\* no catalog entry.
C13_Witness ==
    /\ TranscriptOfStudent
    /\ response.err = Nil
    /\ \E t \in SubjectRecords(worldState, "TakenCourse", response.hei, response.studentID) :
          \A c \in SubjectRecords(worldState, "CourseInfo", response.hei,
                                  response.studentID) : c.CourseCode # t.CourseCode
    /\ Len(response.value.Courses) > 0

\* The pairs of a taken-course result and a catalog entry of one subject
\* that carry the same course code.
MatchingPairs(ws, hei, subject) ==
    {p \in SubjectRecords(ws, "TakenCourse", hei, subject)
            \X SubjectRecords(ws, "CourseInfo", hei, subject) :
        p[1].CourseCode = p[2].CourseCode}

\* The transcript line of a pair, field by field.
LineOf(t, c) ==
    [CourseCode |-> t.CourseCode, Grade |-> t.Grade, Point |-> t.Point,
     TakenSemester |-> t.TakenSemester, CourseName |-> c.CourseName,
     CourseType |-> c.CourseType, ECTS |-> c.ECTS, Credit |-> c.Credit]

\* C14: the course list of a transcript returned without error has exactly
\* one line for every pair of a taken-course result and a catalog entry of the
\* subject with equal course codes, and no other line; the line takes code,
\* grade, point and taken semester from the taken course and name, type,
\* ECTS and credit from the catalog entry.
C14_JoinContent ==
    response.op = "GetStudentTranscript" /\ response.err = Nil
    => \E courses \in {response.value.Courses},
          pairs \in {MatchingPairs(worldState, response.hei, response.studentID)} :
           /\ \A p \in pairs :
                 Cardinality({i \in 1..Len(courses) : courses[i] = LineOf(p[1], p[2])}) = 1
           /\ \A i \in 1..Len(courses) :
                 \E p \in pairs : courses[i] = LineOf(p[1], p[2])

\* A transcript was returned for a student one of whose taken courses matches
\* two catalog entries and another of whose taken courses matches one.
C14_Witness ==
    /\ response.op = "GetStudentTranscript"
    /\ response.err = Nil
    /\ \E p, q, r \in MatchingPairs(worldState, response.hei, response.studentID) :
          /\ p[1] = q[1] /\ p[2] # q[2]
          /\ r[1] # p[1]

\* The records of one kind of a subject in the order in which the meta-index
\* query of a response returned their meta entries.
RecordsInQueryOrder(ws, kind, resp) ==
    Only({ [i \in 1..Len(rows) |-> Unmarshal(kind, ws[ws[rows[i]].hash_value])] :
           rows \in {QueryRows(ws, StudentSelector(kind, resp.hei, resp.studentID),
                               resp.descending)} })

\* The positions <<i, j>> of the taken course and the catalog entry that line
\* number n of a course list was made from.
SourcesOf(courses, n, taken, catalog) ==
    {p \in (1..Len(taken)) \X (1..Len(catalog)) :
        /\ taken[p[1]].CourseCode = catalog[p[2]].CourseCode
        /\ courses[n] = LineOf(taken[p[1]], catalog[p[2]])}

\* C15: the lines of a transcript follow the order in which the meta-index
\* query returned the taken-course results and, within one taken course, the
\* order in which it returned the catalog entries.
C15_TranscriptOrder ==
    response.op = "GetStudentTranscript" /\ response.err = Nil
    => \E courses \in {response.value.Courses},
          taken \in {RecordsInQueryOrder(worldState, "TakenCourse", response)},
          catalog \in {RecordsInQueryOrder(worldState, "CourseInfo", response)} :
           \A n \in 2..Len(courses) :
               \A p \in SourcesOf(courses, n - 1, taken, catalog),
                  q \in SourcesOf(courses, n, taken, catalog) :
                   p[1] < q[1] \/ (p[1] = q[1] /\ p[2] < q[2])

\* A transcript was returned with two lines of one taken course and a line
\* of another, the key order being descending.
C15_Witness ==
    /\ response.op = "GetStudentTranscript"
    /\ response.err = Nil
    /\ response.descending
    /\ \E m, n, o \in 1..Len(response.value.Courses) :
          /\ m < n
          /\ response.value.Courses[m].CourseCode = response.value.Courses[n].CourseCode
          /\ response.value.Courses[o].CourseCode # response.value.Courses[m].CourseCode

\* The selector behind each of the six list and profile queries.
StudentQueries ==
    [Get_Student_StudentInfo |-> "StudentInfo", Get_Student_CourseInfos |-> "CourseInfo",
     Get_Student_TakenCourses |-> "TakenCourse"]

HEIQueries ==
    [Get_HEI_TakenCourses |-> "TakenCourse", Get_HEI_CourseInfos |-> "CourseInfo",
     Get_HEI_StudentInfos |-> "StudentInfo"]

SelectorOf(resp) ==
    IF resp.op \in DOMAIN StudentQueries
    THEN StudentSelector(StudentQueries[resp.op], resp.hei, resp.studentID)
    ELSE HEISelector(HEIQueries[resp.op], resp.hei)

\* C16: each of the six queries returns an error when no meta entry matches
\* its selector, and a query that returns no error returns a profile or a
\* list with at least one record.
C16_EmptyIsNotFound ==
    response.op \in DOMAIN StudentQueries \cup DOMAIN HEIQueries
    => /\ GetQueryResult(worldState, SelectorOf(response)) = {} => response.err # Nil
       /\ response.err = Nil
            => IF response.op = "Get_Student_StudentInfo"
               THEN DOMAIN response.value = FieldSet("StudentInfo")
               ELSE Len(response.value) > 0

\* An institution-wide listing found no meta entry, in a store that holds
\* entries of another institution, and no backend call failed.
C16_Witness ==
    /\ response.op = "Get_HEI_TakenCourses"
    /\ NoFailure(response)
    /\ GetQueryResult(worldState, SelectorOf(response)) = {}
    /\ worldState # [k \in {} |-> NoArgs]
    /\ response.err = Errorf(FmtRead, ErrNoRecord)

\* The only transaction committed so far is an InitLedger on the empty store.
AfterBootstrap == invoked = 1 /\ succeeded = {} /\ DOMAIN worldState # {}

\* C17: after InitLedger on an empty store the store holds 17 data records
\* and 17 meta entries, all of them of Fenerbahce University and subject
\* 190908809; Get_HEI_TakenCourses and Get_HEI_CourseInfos of that
\* institution return 8 records each, and Get_Student_StudentInfo returns the
\* profile with class 1 and semester 1.
C17_BootstrapScenario ==
    AfterBootstrap
    => /\ Cardinality({k \in DOMAIN worldState : ~IsMeta(worldState[k])}) = 17
       /\ Cardinality({k \in DOMAIN worldState : IsMeta(worldState[k])}) = 17
       /\ \A k \in DOMAIN worldState :
             IsMeta(worldState[k])
             => /\ worldState[k].owner = "Fenerbahce University"
                /\ worldState[k].student_id = "190908809"
       /\ response.op \in {"Get_HEI_TakenCourses", "Get_HEI_CourseInfos"}
             /\ response.hei = "Fenerbahce University" /\ NoFailure(response)
          => response.err = Nil /\ Len(response.value) = 8
       /\ response.op = "Get_Student_StudentInfo"
             /\ response.hei = "Fenerbahce University"
             /\ response.studentID = "190908809" /\ NoFailure(response)
          => /\ response.err = Nil
             /\ response.value.Class = 1
             /\ response.value.StudentSemester = 1

\* The taken courses of the seeded institution were listed right after the
\* bootstrap.
C17_Witness ==
    /\ AfterBootstrap
    /\ response.op = "Get_HEI_TakenCourses"
    /\ response.hei = "Fenerbahce University"
    /\ response.err = Nil

\* The store holds every meta entry the bootstrap writes: InitLedger has run.
Bootstrapped(ws) ==
    \A j \in 1..Len(InitLedgerPuts) :
        IsMeta(InitLedgerPuts[j].value) => InitLedgerPuts[j].key \in DOMAIN ws

\* C18: committing an InitLedger on a store in which InitLedger has already
\* run leaves the committed store as it was.
C18_BootstrapIdempotent ==
    [][\A c \in Clients :
          Ends(c) /\ pending[c].op = "InitLedger" /\ pending[c].ok
            /\ Bootstrapped(worldState)
          => worldState' = worldState]_vars

QueryOps ==
    DOMAIN StudentQueries \cup DOMAIN HEIQueries \cup {"GetStudentTranscript"}

\* The response to an insert whose failing backend call was issued: the
\* selector query, or a PutState of a record that the store it ran against
\* did not hold.
InsertHitFailure(ws, resp) ==
    /\ resp.op \in InsertOps
    /\ \/ resp.failAt = 1
       \/ resp.failAt \in {2, 3} /\ ExpectedMetaKey(resp) \notin DOMAIN ws

\* C20: an operation one of whose backend calls fails returns an error and
\* nothing else: an insert returns false and the error, InitLedger the
\* error, a query and GetStudentTranscript a nil value and the error; the
\* failing call is the last backend call of the operation, and what it wrote
\* before is not committed.
C20_BackendErrorIsFatal ==
    [][/\ InsertHitFailure(worldState, response')
          => /\ ~response'.ok
             /\ response'.err # Nil
             /\ Len(response'.writes) = (IF response'.failAt = 3 THEN 1 ELSE 0)
             /\ worldState' = worldState
       /\ response'.op = "InitLedger" /\ response'.failAt # 0
          => /\ ~response'.ok
             /\ response'.err # Nil
             /\ Len(response'.writes) = response'.failAt - 1
             /\ worldState' = worldState
       /\ response'.op \in QueryOps /\ response'.failAt \in 1..Len(response'.calls)
          => /\ response'.err # Nil
             /\ response'.value = NilValue
             /\ Len(response'.calls) = response'.failAt
             /\ worldState' = worldState]_vars

\* GetStudentTranscript failed at its seventh backend call, the selector
\* query for the taken courses, after its reads of the profile and of the
\* catalog had succeeded.
C20_Witness ==
    /\ response.op = "GetStudentTranscript"
    /\ response.failAt = 7
    /\ Len(response.calls) = 7
    /\ response.calls[7] = "GetQueryResult"
    /\ response.err # Nil

\* The responses that carry a profile: the profile itself, or the transcript
\* around it.
ProfileOf(resp) ==
    IF resp.op = "GetStudentTranscript" THEN resp.value.InfoStudent ELSE resp.value

\* C21: Get_Student_StudentInfo, and GetStudentTranscript through it, return
\* the profile dereferenced from the digest of the last row that the
\* StudentInfo query of the subject yields, whatever the number of rows and
\* whichever of the profiles was inserted last.
C21_LastProfileWins ==
    response.op \in {"Get_Student_StudentInfo", "GetStudentTranscript"}
      /\ response.err = Nil
    => \E profiles \in {RecordsInQueryOrder(worldState, "StudentInfo", response)} :
           ProfileOf(response) = profiles[Len(profiles)]

\* The subject has two profiles, both inserted by the caller in one order or
\* the other; the rows came in descending key order, and the query returned
\* the profile of the first semester, the last of the two rows.
C21_Witness ==
    /\ response.op = "Get_Student_StudentInfo"
    /\ response.err = Nil
    /\ response.descending
    /\ \E profiles \in {RecordsInQueryOrder(worldState, "StudentInfo", response)} :
          /\ Len(profiles) = 2
          /\ profiles[1] # profiles[2]
          /\ response.value = profiles[2]
          /\ response.value = InsertedProfile(SeedProfile(FBU))
    /\ {SeedProfile(FBU), [SeedProfile(FBU) EXCEPT !.class = 2, !.semester = 3]}
          \subseteq {call.args : call \in succeeded}

\* The five handlers that return a list of records, with the kind of record.
ListQueries ==
    [Get_Student_CourseInfos |-> "CourseInfo", Get_Student_TakenCourses |-> "TakenCourse",
     Get_HEI_TakenCourses |-> "TakenCourse", Get_HEI_CourseInfos |-> "CourseInfo",
     Get_HEI_StudentInfos |-> "StudentInfo"]

\* The digests of the rows that the meta-index query of a response yields,
\* in order.
DigestsInQueryOrder(ws, resp) ==
    Only({ [i \in 1..Len(rows) |-> ws[rows[i]].hash_value] :
           rows \in {QueryRows(ws, SelectorOf(resp), resp.descending)} })

\* The records stored under a list of digests, read as records of a kind.
Dereferenced(ws, kind, hashValues) ==
    [i \in 1..Len(hashValues) |-> Unmarshal(kind, ws[hashValues[i]])]

\* The digests of a list under which the store holds nothing.
Missing(ws, hashValues) == {i \in 1..Len(hashValues) : hashValues[i] \notin DOMAIN ws}

\* C22: a list query that returns no error returns the records stored under
\* the digests of its meta-index rows, one per row and in the order of the
\* rows; the fetch loop run on a digest list returns the records in the order
\* of the digests when the store holds a record under each, and otherwise
\* returns the not-found error of the first digest without a record, and no
\* record; and a lookup of a digest without a record returns that error too.
C22_FetchAllOrNothing ==
    /\ response.op \in DOMAIN ListQueries /\ response.err = Nil
       => \E hashValues \in {DigestsInQueryOrder(worldState, response)} :
              response.value = Dereferenced(worldState, ListQueries[response.op], hashValues)
    /\ response.op = "FetchByHashValues"
       => \E missing \in {Missing(worldState, response.hashValues)} :
              IF missing = {}
              THEN /\ response.err = Nil
                   /\ response.value =
                          Dereferenced(worldState, response.kind, response.hashValues)
              ELSE /\ response.err # Nil
                   /\ \E first \in missing :
                          /\ \A i \in missing : first <= i
                          /\ response.err =
                                Errorf(FmtFetch, Errorf(FmtNoHash, response.hashValues[first]))
                          /\ Len(response.calls) = 1 + Len(response.hashValues) + first
                   /\ response.value = NilValue
    /\ response.op \in {"Get_StudentInfo_ByHashValue", "Get_CourseInfo_ByHashValue",
                        "Get_TakenCourse_ByHashValue"}
         /\ response.failAt = 0 /\ response.hashValue \notin DOMAIN worldState
       => /\ response.err = Errorf(FmtNoHash, response.hashValue)
          /\ response.value = NilValue

\* The fetch loop met a digest without a record after it had read the record
\* of the digest before, and returned the error alone.
C22_Witness ==
    /\ response.op = "FetchByHashValues"
    /\ Len(response.hashValues) = 2
    /\ response.hashValues[1] \in DOMAIN worldState
    /\ response.hashValues[2] = AbsentDigest
    /\ response.err = Errorf(FmtFetch, Errorf(FmtNoHash, AbsentDigest))
    /\ response.value = NilValue

\* The meta entries of one institution and one relation, of whatever subject.
InstitutionEntries(ws, hei, relation) ==
    {k \in DOMAIN ws :
        IsMeta(ws[k]) /\ ws[k].owner = hei /\ ws[k].relation = relation}

\* C23: an institution-wide listing that returns no error returns one record
\* for every meta entry of the institution and the kind asked for, whatever
\* the entry's subject: the list is as long as the set of these entries, and
\* a record occurs in it as often as entries point at it.
C23_InstitutionWideListing ==
    response.op \in DOMAIN HEIQueries /\ response.err = Nil
    => \E entries \in {InstitutionEntries(worldState, response.hei,
                                           HEIQueries[response.op])} :
          /\ Len(response.value) = Cardinality(entries)
          /\ \A k \in entries :
                \E record \in {Unmarshal(HEIQueries[response.op],
                                         worldState[worldState[k].hash_value])} :
                    Cardinality({i \in 1..Len(response.value) : response.value[i] = record})
                      = Cardinality({e \in entries :
                                       worldState[e].hash_value = worldState[k].hash_value})

\* The catalog listing of an institution returned the same record twice, the
\* record being registered under two subjects.
C23_Witness ==
    /\ response.op = "Get_HEI_CourseInfos"
    /\ response.err = Nil
    /\ Len(response.value) = 2
    /\ response.value[1] = response.value[2]
    /\ \E k, e \in InstitutionEntries(worldState, response.hei, "CourseInfo") :
          /\ worldState[k].student_id # worldState[e].student_id
          /\ worldState[k].hash_value = worldState[e].hash_value

\* Two clients' invocations of one insert call, with no backend failure, are
\* both between handler and commit in a store without the call's meta entry.
BothPassedCheck(c, d) ==
    /\ c # d
    /\ pending[c].op \in InsertOps
    /\ pending[d].op \in InsertOps
    /\ CallOf(pending[c]) = CallOf(pending[d])
    /\ pending[c].failAt = 0
    /\ pending[d].failAt = 0
    /\ ExpectedMetaKey(pending[c]) \notin DOMAIN worldState

\* C24: the existence check of an insert does not see the writes of an
\* identical insert that is not committed yet: whenever two identical inserts
\* have both run before either is committed, both passed the check, both
\* issued their two writes and both returned (true, nil), and the host
\* commits both.
C24_CheckThenActRace ==
    /\ [](\A c, d \in Clients :
            BothPassedCheck(c, d) =>
                /\ pending[c].ok /\ pending[d].ok
                /\ pending[c].err = Nil /\ pending[d].err = Nil
                /\ Len(pending[c].writes) = 2
                /\ pending[d].writes = pending[c].writes)
    /\ [][\A c \in Clients :
            (Ends(c) /\ pending[c].op \in InsertOps /\ pending[c].ok) =>
                worldState' = ApplyWrites(worldState, pending[c].writes)]_vars

\* Two identical inserts of a taken course are pending, both with success.
C24_Witness ==
    \E c, d \in Clients :
        /\ BothPassedCheck(c, d)
        /\ pending[c].op = "InsertNewRecordTakenCourse"
        /\ pending[c].ok /\ pending[d].ok
        /\ Len(pending[c].writes) = 2 /\ Len(pending[d].writes) = 2

\* The step in which a waiting caller's insert is answered.
InsertAnswered == response = NoResponse /\ response'.op \in InsertOps

\* The meta entries that carry the triple of an insert under the tag of
\* another kind of record.
OtherKindEntries(ws, tx) ==
    {k \in MetaEntriesFor(ws, tx.args.owner, ExpectedSubject(tx), ExpectedDigest(tx)) :
        ws[k].relation # ExpectedRelation(tx)}

\* C25: IsRecordExists, its query having succeeded, returns (true, nil) if
\* the store holds a meta entry with the owner, the student_id and the
\* hash_value of its arguments, of whatever relation, and (false, nil) if it
\* holds none; it returns (true, nil) and (false, nil) in no other case; and
\* an insert whose triple an insert of another kind has stored is rejected
\* with "the record you sent exists" and changes nothing.
C25_ExistenceIsKindBlind ==
    /\ [](response.op = "IsRecordExists"
           => \E entries \in {MetaEntriesFor(worldState, response.hei, response.studentID,
                                              response.hashValue)} :
                 /\ response.failAt = 0
                    => /\ response.err = Nil
                       /\ response.exists <=> entries # {}
                 /\ response.exists /\ response.err = Nil
                    => response.failAt = 0 /\ entries # {}
                 /\ ~response.exists
                    => response.err = Nil /\ response.failAt = 0 /\ entries = {})
    /\ [][InsertAnswered /\ response'.failAt # 1
             /\ OtherKindEntries(worldState, response') # {}
           => /\ ~response'.ok
              /\ response'.err = ErrExists
              /\ response'.writes = <<>>
              /\ worldState' = worldState]_vars

\* A catalog insert was rejected as existing although the only entry with
\* its triple is that of a taken course.
C25_Witness ==
    /\ response.op = "InsertNewRecordCourseInfo"
    /\ response.err = ErrExists
    /\ \E entries \in {MetaEntriesFor(worldState, response.args.owner,
                                       ExpectedSubject(response),
                                       ExpectedDigest(response))} :
          /\ entries # {}
          /\ \A k \in entries : worldState[k].relation = "TakenCourse"

\* The members of the JSON document of a record of a kind.
MembersOf(kind) == {JsonTag(f) : f \in FieldSet(kind)}

\* C26: in every committed store the document under the hash_value of a meta
\* entry is a record of the kind that the entry's relation names.
C26_KindConsistency ==
    \A k \in DOMAIN worldState :
        IsMeta(worldState[k]) /\ worldState[k].hash_value \in DOMAIN worldState
        => DOMAIN worldState[worldState[k].hash_value] = MembersOf(worldState[k].relation)

\* What every query scoped to one institution returns from a store, no
\* backend call failing: error and value of each.
Answer(r) == [err |-> r.err, value |-> r.value]

ViewOf(ws, hei) ==
    [d \in BOOLEAN |->
        << [studentID \in StudentIDs |->
               << Answer(Get_Student_StudentInfo(ws, hei, studentID, 0, Env(0, d))),
                  Answer(Get_Student_CourseInfos(ws, hei, studentID, 0, Env(0, d))),
                  Answer(Get_Student_TakenCourses(ws, hei, studentID, 0, Env(0, d))),
                  Answer(GetStudentTranscript(ws, hei, studentID, 0, Env(0, d))) >>],
           Answer(Get_HEI_TakenCourses(ws, hei, 0, Env(0, d))),
           Answer(Get_HEI_StudentInfos(ws, hei, 0, Env(0, d))),
           Answer(Get_HEI_CourseInfos(ws, hei, 0, Env(0, d))) >>]

\* C27: a successful insert made with one owner leaves what every query
\* scoped to another institution returns as it was before the insert.
C27_InstitutionIsolation ==
    [][InsertAnswered /\ response'.ok
       => \A hei \in HEIs \ {response'.args.owner} :
              ViewOf(worldState', hei) = ViewOf(worldState, hei)]_vars

\* The relations of which a subject of a response has no meta entry.
EmptyRelations(ws, resp) ==
    {relation \in {"StudentInfo", "CourseInfo", "TakenCourse"} :
        GetQueryResult(ws, StudentSelector(relation, resp.hei, resp.studentID)) = {}}

\* C28: GetStudentTranscript returns an error and no transcript whenever the
\* subject has no StudentInfo entry, no CourseInfo entry or no TakenCourse
\* entry at the institution, and the error is the no-record error of the
\* first empty read unless a backend call failed before.
C28_TranscriptNeedsAllThree ==
    response.op = "GetStudentTranscript"
      /\ EmptyRelations(worldState, response) # {}
    => /\ response.err # Nil
       /\ response.value = NilValue
       /\ NoFailure(response)
          => response.err = Errorf(FmtTranscript, Errorf(FmtRead, ErrNoRecord))

\* A student with a profile and a taken course, but no catalog entry, was
\* refused a transcript, no backend call having failed.
C28_Witness ==
    /\ response.op = "GetStudentTranscript"
    /\ NoFailure(response)
    /\ EmptyRelations(worldState, response) = {"CourseInfo"}
    /\ response.err = Errorf(FmtTranscript, Errorf(FmtRead, ErrNoRecord))
    /\ response.value = NilValue

\* The operations that only read.
ReadOps ==
    QueryOps \cup {"IsRecordExists", "Get_StudentInfo_ByHashValue",
                   "Get_CourseInfo_ByHashValue", "Get_TakenCourse_ByHashValue"}

\* The backend calls that read.
ReadCalls == {"GetQueryResult", "Next", "GetState"}

\* C29: IsRecordExists, the Get_Student_* and Get_HEI_* queries, the
\* Get_*_ByHashValue lookups and GetStudentTranscript issue no backend call
\* other than GetQueryResult, iterator steps and GetState, and the committed
\* store is the same after them as before, whether they return an error or
\* not.
C29_QueriesAreReadOnly ==
    [][response'.op \in ReadOps
       => /\ \A i \in 1..Len(response'.calls) : response'.calls[i] \in ReadCalls
          /\ worldState' = worldState]_vars

\* A transcript was returned after more than nine backend calls, three
\* selector queries, their iterator steps and the fetches, against a store
\* that holds records.
C29_Witness ==
    /\ response.op = "GetStudentTranscript"
    /\ response.err = Nil
    /\ Len(response.calls) > 9
    /\ \E i \in 1..Len(response.calls) : response.calls[i] = "GetState"
    /\ DOMAIN worldState # {}

\* The operations that open a query iterator.
IteratingOps == QueryOps \cup {"IsRecordExists"}

\* C30: every operation that opened a query iterator has closed it when it
\* returns: no response reports an iterator left open.
C30_IteratorsClosed ==
    response.op \in IteratingOps => response.unclosed = 0

=============================================================================
